---- MODULE Spec2Model ----
(***************************************************************************)
(* A model of solmap's host side: the yearly-incidence orchestrator        *)
(* (one producer, one consumer thread per ShadowProcessor, a concurrent    *)
(* queue and a counting semaphore), the per-device pool of fence-gated     *)
(* task slots driven by ShadowProcessor::process, the device executing     *)
(* the submitted frames, main's collection of the results, and the         *)
(* memory-type selector find_memory_heap.                                  *)
(***************************************************************************)
EXTENDS Integers, Sequences, FiniteSets, TLC

(***************************************************************************)
(* Bounds of the model.                                                    *)
(***************************************************************************)
\* processors.size(): the ShadowProcessors, one consumer thread each.
NumJobs == 2
\* The queues (hence task slots) of the first device; every other device
\* exposes a single queue.
NumQueues == 2
\* The samples the SunSequence yields before next() returns false.
NumSamples == 3
\* mesh.vertices.size(): the test points of the mesh.
NumPoints == 2
\* Entries of the memory-type table (memoryTypeCount) at most.
MaxMemTypes == 3
\* memoryTypeCount at most, of the device a buffer is constructed on.
MaxBufMemTypes == 2
\* Elements of a buffer, and of one transfer, at most.
MaxCount == 2
\* The bits of the unsigned integers standing for uint32_t.
WordBits == 5
\* maxComputeWorkGroupInvocations and maxComputeWorkGroupSize[0] at most.
MaxLimit == 6
\* Physical devices vkEnumeratePhysicalDevices reports at most.
MaxDevices == 2
\* Queue families of a physical device at most.
MaxQueueFamilies == 2
\* process calls made on the processor whose calls are followed step by step.
MaxCalls == 3
\* VK_TIMEOUT results of vkWaitForFences within one process call at most.
MaxTimeouts == 1
\* Queues of one queue family handed to the ShadowProcessor constructor at most.
MaxFamilyQueues == 3
\* transfer calls made on the BufferTransferer followed statement by statement.
MaxXferCalls == 3
MaxWrappers == 3
MaxHandles == 2

Jobs == 1..NumJobs
Samples == 1..NumSamples
Points == 1..NumPoints

\* task_pool.size() of processor p: one TaskSlot is emplaced per queue.
PoolSize(p) == IF p = 1 THEN NumQueues ELSE 1
\* Slot indices are 0-based, as in task_pool / fence_set.
Slots(p) == 0..(PoolSize(p) - 1)

VARIABLES
    \* ---- main thread (calculate_yearly_incidence, then main) ----
    mainPc,           \* "produce" | "signal" | "notify" | "join" | "collect" | "done"
    produced,         \* samples drawn from the SunSequence so far
    notified,         \* shutdown signals posted so far by sem.signal(jobs.size())
    collected,        \* processors main has already collected
    \* ---- shared between producer and consumers ----
    queue,            \* moodycamel::ConcurrentQueue: the enqueued samples
    sem,              \* Semaphore: the count of the POSIX semaphore
    \* ---- consumer threads ----
    jobPc,            \* "sem_wait" | "dequeue" | "fence_wait" | "exited" |
                      \* "terminate" | "undefined"
    val,              \* the sample a consumer holds (0: none yet)
    \* ---- ShadowProcessor, per device ----
    count,            \* size_t count
    sum,              \* Vec3 sum
    available_slots,  \* std::queue<uint32_t> available_slots
    fence_set,        \* fence_set[p][i]: TRUE when the fence is signaled
    \* ---- the device ----
    pending,          \* pending[p][i]: submitted command lists of slot i not yet executed
    uniform,          \* uniform[p][i]: the sample written to the slot's UniformDataInput
    result_buf,       \* result_buf[p][i][pt]: the slot's result buffer
    \* ---- main's results ----
    result,           \* std::vector<double> result, with one entry past num_points
    dir_total,        \* sum of the processors' sums
    total_count,      \* size_t count of main
    \* ---- history, for the claims ----
    dequeues,         \* dequeues[s]: times sample s came out of the queue
    processCalls,     \* processCalls[s]: times sample s was passed to process
    emptyDequeues,    \* emptyDequeues[c]: waits of consumer c answered by an empty dequeue
    refusals,         \* command lists vkQueueSubmit refused so far
    \* ---- find_memory_heap ----
    heapPc,           \* "idle" | "call" | "returned" | "thrown"
    mem_props,        \* memoryTypes[0..memoryTypeCount-1].propertyFlags, as sets of flags
    allowed,          \* the bits set in the allowed mask
    required,
    prefered,
    mtype,            \* the index returned
    \* ---- construction of a MaybeStagedBuffer ----
    bufPc,            \* "idle" | "first" | "retry" | "staging" | "move" |
                      \* "constructed" | "failed"
    usage_arg,        \* the usage argument of the constructor
    host_direction,   \* the BufferAccessDirection argument
    ab,               \* the local AccessibleBuffer ab
    staging_buf,      \* std::unique_ptr<Buffer> staging_buf (NullBuffer: nullptr)
    this_buf,         \* the Buffer base of the MaybeStagedBuffer
    buffer_thrown,    \* what the latest Buffer constructor threw to its caller
    first_attempt,    \* history: "none" | "ok" | "failed", the first Buffer of ab
    retry_attempt,    \* history: "none" | "ok" | "failed", the second Buffer of ab
    num_handles,      \* Vulkan handles created so far
    size_arg,         \* the size argument of the MaybeStagedBuffer constructor
    buf_size,         \* VkBufferCreateInfo::size each VkBuffer was created with
    destroyed,        \* handles given to vkDestroyBuffer / vkFreeMemory
    \* ---- BufferTransferer ----
    dev_mem,          \* dev_mem[b]: the elements in the memory of buffer b
    visible,          \* visible[b]: is_host_visible of buffer b
    tmp,              \* the elements of the memory of *tmp (<<>>: tmp is null)
    tmp_size,         \* uint32_t tmp_size
    cb,               \* TRUE when the command buffer is allocated
    written,          \* history: the latest write-only transfer to buffer "A"
    presented,        \* history: what the read-only callback just saw of "A"
    \* ---- WorkGroupSplit ----
    splitPc,          \* "idle" | "call" | "done"
    dlimits,          \* VkPhysicalDeviceLimits: the two limits read
    work_size,        \* uint32_t work_size
    num_groups,       \* uint32_t num_groups
    group_x_size,     \* uint32_t group_x_size
    \* ---- create_procs_from_devices ----
    setupPc,          \* "idle" | "launch" | "collect" | "returned" | "exit"
    pds,              \* the enumerated physical devices
    create_work,      \* the futures: the index in pds of each task's device
    next_future,      \* the future the second loop is at
    processors,       \* the ShadowProcessors: the index in pds of each one's device
    \* ---- one ShadowProcessor::process call, step by step ----
    procPc,           \* "idle" | "ready" | "wait" | "scan" | "front" | "write" |
                      \* "flush" | "submit" | "thrown" | "undefined"
    direction,        \* the sun direction argument of the call (0: none yet)
    ret,              \* VkResult ret of the vkWaitForFences loop ("none": not run)
    scan_i,           \* uint32_t i of the loop over fence_set
    cur_task_idx,     \* uint32_t task_idx
    params,           \* params[i]: the mapped UniformDataInput of slot i, host side
    calls,            \* history: process calls started
    timeouts,         \* history: VK_TIMEOUT results within the current call
    submit_calls,     \* history: vkQueueSubmit calls made
    last_submit,      \* history: the latest vkQueueSubmit call
    \* ---- ShadowProcessor::ShadowProcessor ----
    ctorPc,           \* "idle" | "begin" | "slots" | "constructed" | "running" |
                      \* "thrown"
    queues,           \* queues[f]: the number of queues of the f-th family
    num_slots,        \* unsigned num_slots
    desc_pool,        \* the descriptor pool: its limits and what is allocated
    task_pool,        \* std::vector<TaskSlot> task_pool
    ctor_fence_set,   \* std::vector<VkFence> fence_set, as fence handles
    ctor_available_slots, \* std::queue<uint32_t> available_slots
    signaled,         \* the fence handles whose fence is signaled
    next_qf,          \* the family the outer loop is at
    next_q,           \* the queue the inner loop is at
    \* ---- one BufferTransferer::transfer call, statement by statement ----
    xPc,              \* "idle" | "ready" | "direct" | "grow" | "assert" | "cmdbuf" |
                      \* "read" | "read_wait" | "func" | "write" | "write_wait" |
                      \* "undefined"
    x_visible,        \* buf.is_host_visible of the call
    x_count,          \* uint32_t count of the call
    x_direction,      \* BufferAccessDirection direction of the call
    q_pending,        \* command buffers submitted to q and not yet executed
    events,           \* history: what the call and the queue did, in order
    outcome,          \* history: "none" | "returned" | "thrown", the latest call
    xfer_calls,       \* history: transfer calls started
    regrows,          \* history: Buffers made for tmp
    cb_allocs,        \* history: command buffer allocations
    \* ---- calculate_yearly_incidence and its vector ----
    yiMain,           \* main thread: "enqueue" | "signal" | "notify" | "join" |
                      \* "shrink" | "returned"
    yi_next,          \* the next sample ss.next(val) produces
    yi_queue,         \* queue, as the consumers of this function see it
    yi_sem,           \* sem
    yiPc,             \* per job: "wait" | "dequeue" | "process" | "push_load" |
                      \* "push_store" | "exited"
    yi_val,           \* per job: InstantaneousData val of the lambda
    yi_end,           \* per job: the end position push_back has read
    di_data,          \* direct_incidence: the reserved storage (0: unwritten)
    di_size,          \* direct_incidence.size()
    yi_result,        \* the vector returned, <<>> before the return
    \* ---- ~ShadowProcessor ----
    dtPc,             \* per object: "none" | "alive" | "body" | "members" |
                      \* "destroyed"
    dt_members,       \* per object and member: it holds device objects
    dt_k,             \* per object: the next member to destroy
    dt_pending,       \* work submitted to the device and not completed
    dt_live,          \* the members' device objects not destroyed yet
    dt_waits,         \* returns of vkDeviceWaitIdle
    \* ---- Buffer::Buffer of src/src/shadow_processor.cpp ----
    obPc,             \* "loop" | "test" | "allocate" | "thrown" | "allocated" |
                      \* "alloc_failed"
    ob_types,         \* mem_props.memoryTypes[..].propertyFlags
    ob_bits,          \* mem_reqs.memoryTypeBits
    ob_i,             \* uint32_t i
    ob_mtype,         \* uint32_t mtype (Unset: not assigned yet)
    ob_alloc,         \* memoryTypeIndex given to vkAllocateMemory (Unset: none)
    \* ---- Manager, ManagedVk, ManagedDPVk ----
    mgPc,             \* "running" | "aborted" (a failed assert)
    mg_ndebug,        \* the build defines NDEBUG: assert expands to nothing
    mg_state,         \* per wrapper: "none" | "alive" | "destroyed"
    mg_obj,           \* per wrapper: ManagedType obj (0: nullptr)
    mg_handles,       \* handles CreateFn has made
    mg_destroys       \* per handle: calls of DestroyFn on it

mainVars == <<mainPc, produced, notified, collected>>
sharedVars == <<queue, sem>>
jobVars == <<jobPc, val>>
totalVars == <<count, sum>>
poolVars == <<available_slots, fence_set, pending, uniform>>
resultVars == <<result, dir_total, total_count>>
histVars == <<dequeues, processCalls, emptyDequeues, refusals>>
heapVars == <<heapPc, mem_props, allowed, required, prefered, mtype>>
sysVars == <<mainVars, sharedVars, jobVars, totalVars, poolVars, result_buf,
             resultVars, histVars>>
bufVars == <<bufPc, usage_arg, host_direction, ab, staging_buf, this_buf,
             buffer_thrown, first_attempt, retry_attempt, num_handles,
             size_arg, buf_size, destroyed>>
xferVars == <<dev_mem, visible, tmp, tmp_size, cb, written, presented>>
splitVars == <<splitPc, dlimits, work_size, num_groups, group_x_size>>
setupVars == <<setupPc, pds, create_work, next_future, processors>>
\* What the orchestrator, pool and device leave alone.
procVars == <<procPc, direction, ret, scan_i, cur_task_idx, params, calls, timeouts,
              submit_calls, last_submit>>
ctorVars == <<ctorPc, queues, num_slots, desc_pool, task_pool, ctor_fence_set,
              ctor_available_slots, signaled, next_qf, next_q>>
callVars == <<xPc, x_visible, x_count, x_direction, q_pending, events, outcome,
              xfer_calls, regrows, cb_allocs>>
\* The variables of the specifications that follow the constructor's.
yiVars == <<yiMain, yi_next, yi_queue, yi_sem, yiPc, yi_val, yi_end, di_data,
            di_size, yi_result>>
dtorVars == <<dtPc, dt_members, dt_k, dt_pending, dt_live, dt_waits>>
oldVars == <<obPc, ob_types, ob_bits, ob_i, ob_mtype, ob_alloc>>
mgrVars == <<mgPc, mg_ndebug, mg_state, mg_obj, mg_handles, mg_destroys>>
tailVars == <<yiVars, dtorVars, oldVars, mgrVars>>
lateVars == <<callVars, tailVars>>
auxVars == <<heapVars, bufVars, xferVars, splitVars, setupVars, procVars, ctorVars,
             lateVars>>
vars == <<sysVars, auxVars>>

(***************************************************************************)
(* Data carried by a sample.  The unit vector pointing to the sun and the  *)
(* incidence a frame adds at a test point are real-valued in the program;  *)
(* here each sample contributes its own binary digit, so that a sum tells  *)
(* which samples it holds and how often.                                   *)
(***************************************************************************)
SunVec(s) == 2 ^ (s - 1)
Incidence(s, pt) == pt * 2 ^ (s - 1)

(***************************************************************************)
(* Initial state: the ShadowProcessor constructor has run for every        *)
(* device, the consumer threads have been started, nothing is produced.    *)
(***************************************************************************)
SysInit ==
    /\ mainPc = "produce"
    /\ produced = 0
    /\ notified = 0
    /\ collected = 0
    /\ queue = <<>>
    /\ sem = 0
    /\ jobPc = [c \in Jobs |-> "sem_wait"]
    /\ val = [c \in Jobs |-> 0]
    /\ count = [p \in Jobs |-> 0]
    /\ sum = [p \in Jobs |-> 0]
    /\ available_slots = [p \in Jobs |-> [k \in 1..PoolSize(p) |-> k - 1]]
    /\ fence_set = [p \in Jobs |-> [i \in Slots(p) |-> TRUE]]
    /\ pending = [p \in Jobs |-> [i \in Slots(p) |-> 0]]
    /\ uniform = [p \in Jobs |-> [i \in Slots(p) |-> 0]]
    /\ result_buf = [p \in Jobs |-> [i \in Slots(p) |-> [pt \in Points |-> 0]]]
    /\ result = [k \in 1..(NumPoints + 1) |-> 0]
    /\ dir_total = 0
    /\ total_count = 0
    /\ dequeues = [s \in Samples |-> 0]
    /\ processCalls = [s \in Samples |-> 0]
    /\ emptyDequeues = [c \in Jobs |-> 0]
    /\ refusals = 0

HeapIdle ==
    /\ heapPc = "idle"
    /\ mem_props = <<>>
    /\ allowed = {}
    /\ required = {}
    /\ prefered = {}
    /\ mtype = 0

\* VK_NULL_HANDLE members, as default construction leaves a Buffer.
NullBuffer == [buf |-> 0, mem |-> 0, usage |-> {}, mtype |-> 0]

\* No buffer is being constructed.
BufIdle ==
    /\ bufPc = "idle"
    /\ usage_arg = {}
    /\ host_direction = {}
    /\ ab = [base |-> NullBuffer, is_host_visible |-> FALSE]
    /\ staging_buf = NullBuffer
    /\ this_buf = NullBuffer
    /\ buffer_thrown = "none"
    /\ first_attempt = "none"
    /\ retry_attempt = "none"
    /\ num_handles = 0
    /\ size_arg = 0
    /\ buf_size = <<>>
    /\ destroyed = {}

\* No transfer recorded: of a write to "A", or of what a callback saw.
NoTransfer == [count |-> 0, values |-> <<>>, reused |-> FALSE, regrown |-> FALSE]

\* No BufferTransferer is in use.
XferIdle ==
    /\ dev_mem = <<>>
    /\ visible = <<>>
    /\ tmp = <<>>
    /\ tmp_size = 0
    /\ cb = FALSE
    /\ written = NoTransfer
    /\ presented = NoTransfer

\* No WorkGroupSplit is being constructed.
SplitIdle ==
    /\ splitPc = "idle"
    /\ dlimits = [maxComputeWorkGroupInvocations |-> 1, maxComputeWorkGroupSizeX |-> 1]
    /\ work_size = 1
    /\ num_groups = 0
    /\ group_x_size = 0

\* create_procs_from_devices is not running.
SetupIdle ==
    /\ setupPc = "idle"
    /\ pds = <<>>
    /\ create_work = <<>>
    /\ next_future = 1
    /\ processors = <<>>

\* No process call is followed step by step.
ProcIdle ==
    /\ procPc = "idle"
    /\ direction = 0
    /\ ret = "none"
    /\ scan_i = 0
    /\ cur_task_idx = 0
    /\ params = <<>>
    /\ calls = 0
    /\ timeouts = 0
    /\ submit_calls = 0
    /\ last_submit = <<>>

\* No ShadowProcessor is under construction.
CtorIdle ==
    /\ ctorPc = "idle"
    /\ queues = <<>>
    /\ num_slots = 0
    /\ desc_pool = <<>>
    /\ task_pool = <<>>
    /\ ctor_fence_set = <<>>
    /\ ctor_available_slots = <<>>
    /\ signaled = {}
    /\ next_qf = 1
    /\ next_q = 1

\* No transfer call is followed statement by statement.
CallIdle ==
    /\ xPc = "idle"
    /\ x_visible = FALSE
    /\ x_count = 0
    /\ x_direction = {}
    /\ q_pending = 0
    /\ events = <<>>
    /\ outcome = "none"
    /\ xfer_calls = 0
    /\ regrows = 0
    /\ cb_allocs = 0

\* calculate_yearly_incidence is not running.
YiIdle ==
    /\ yiMain = "idle"
    /\ yi_next = 0
    /\ yi_queue = <<>>
    /\ yi_sem = 0
    /\ yiPc = [c \in Jobs |-> "idle"]
    /\ yi_val = [c \in Jobs |-> 0]
    /\ yi_end = [c \in Jobs |-> 0]
    /\ di_data = <<>>
    /\ di_size = 0
    /\ yi_result = <<>>

\* No ShadowProcessor is followed to its destruction.
DtorIdle ==
    /\ dtPc = <<>>
    /\ dt_members = <<>>
    /\ dt_k = <<>>
    /\ dt_pending = 0
    /\ dt_live = {}
    /\ dt_waits = 0

\* The value of a uint32_t that was never assigned, as the model names it.
Unset == 0 - 1

\* No Buffer of the src/src variant is being constructed.
OldIdle ==
    /\ obPc = "idle"
    /\ ob_types = <<>>
    /\ ob_bits = {}
    /\ ob_i = 0
    /\ ob_mtype = Unset
    /\ ob_alloc = Unset

\* No wrapper object is followed.
MgrIdle ==
    /\ mgPc = "idle"
    /\ mg_ndebug = FALSE
    /\ mg_state = <<>>
    /\ mg_obj = <<>>
    /\ mg_handles = 0
    /\ mg_destroys = <<>>

TailIdle == YiIdle /\ DtorIdle /\ OldIdle /\ MgrIdle

LateIdle == CallIdle /\ TailIdle

\* Every part of the model before the late ones is idle.
EarlyIdle ==
    /\ SysInit
    /\ HeapIdle
    /\ BufIdle
    /\ XferIdle
    /\ SplitIdle
    /\ SetupIdle
    /\ ProcIdle
    /\ CtorIdle
    /\ CallIdle

earlyVars == <<sysVars, heapVars, bufVars, xferVars, splitVars, setupVars, procVars,
               ctorVars, callVars>>

Init ==
    /\ SysInit
    /\ HeapIdle
    /\ BufIdle
    /\ XferIdle
    /\ SplitIdle
    /\ SetupIdle
    /\ ProcIdle
    /\ CtorIdle
    /\ LateIdle

\* std::terminate after an exception escaped a consumer thread.
Terminated == \E c \in Jobs : jobPc[c] = "terminate"

(***************************************************************************)
(* ShadowProcessor::process and TaskSlot::compute_frame.                   *)
(***************************************************************************)
\* UpdateTotals counting the call twice.
UpdateTotalsTwice(p, s) ==
    /\ sum' = [sum EXCEPT ![p] = @ + SunVec(s)]
    /\ count' = [count EXCEPT ![p] = @ + 2]

\* sum += sun; ++count;
UpdateTotals(p, s) ==
    /\ sum' = [sum EXCEPT ![p] = @ + SunVec(s)]
    /\ count' = [count EXCEPT ![p] = @ + 1]

\* FenceStatus with the status of the fence not compared to VK_SUCCESS.
FenceStatusIgnored(p, i) == TRUE

\* vkGetFenceStatus(d, fence_set[i]) == VK_SUCCESS
FenceStatus(p, i) == fence_set[p][i]

\* The loop over fence_set that pushes every signaled slot, from index i on.
RECURSIVE ScanFrom(_, _, _)
ScanFrom(p, i, fifo) ==
    IF i >= PoolSize(p) THEN fifo
    ELSE ScanFrom(p, i + 1, IF FenceStatus(p, i) THEN Append(fifo, i) ELSE fifo)

\* ScanFences pushing every slot of the pool, whatever its fence says.
ScanEverySlot(p) == available_slots[p] \o [k \in 1..PoolSize(p) |-> k - 1]

\* The available slots after the refill of an empty FIFO.
ScanFences(p) == ScanFrom(p, 0, available_slots[p])

\* WaitForFencesReady with waitAll = VK_TRUE.
WaitForAllFences(p) == \A i \in Slots(p) : fence_set[p][i]

\* WaitForFencesReady when vkWaitForFences answers VK_SUCCESS at any time.
WaitForFencesAlwaysReady(p) == TRUE

\* vkWaitForFences(..., waitAll = VK_FALSE, one minute) can return VK_SUCCESS.
WaitForFencesReady(p) == \E i \in Slots(p) : fence_set[p][i]

\* compute_frame: write the uniform data, flush, vkQueueSubmit with the slot's
\* fence.  The result of vkQueueSubmit is not looked at; submitted says
\* whether the queue accepted the command list.
ComputeFrame(p, task_idx, s, submitted) ==
    /\ uniform' = [uniform EXCEPT ![p][task_idx] = s]
    /\ pending' = [pending EXCEPT ![p][task_idx] = @ + (IF submitted THEN 1 ELSE 0)]
    /\ refusals' = refusals + (IF submitted THEN 0 ELSE 1)

\* Dispatch with front() but no pop().
DispatchWithoutPop(p, fifo, s, submitted) ==
    LET task_idx == Head(fifo) IN
    /\ available_slots' = [available_slots EXCEPT ![p] = fifo]
    /\ fence_set' = [fence_set EXCEPT ![p][task_idx] = FALSE]
    /\ ComputeFrame(p, task_idx, s, submitted)

\* front(), pop(), vkResetFences on that slot's fence alone, compute_frame.
Dispatch(p, fifo, s, submitted) ==
    LET task_idx == Head(fifo) IN
    /\ available_slots' = [available_slots EXCEPT ![p] = Tail(fifo)]
    /\ fence_set' = [fence_set EXCEPT ![p][task_idx] = FALSE]
    /\ ComputeFrame(p, task_idx, s, submitted)

(***************************************************************************)
(* The consumer threads of calculate_yearly_incidence.                     *)
(***************************************************************************)
\* SemWait that also returns when sem_wait was interrupted (EINTR) and took
\* nothing.
SemWaitInterrupted(c) ==
    /\ ~Terminated
    /\ jobPc[c] = "sem_wait"
    /\ sem' = IF sem > 0 THEN sem - 1 ELSE sem
    /\ jobPc' = [jobPc EXCEPT ![c] = "dequeue"]
    /\ UNCHANGED <<mainVars, queue, val, totalVars, poolVars, result_buf,
                   resultVars, histVars, auxVars>>

\* sem.wait() returns: sem_wait took one unit.
SemWait(c) ==
    /\ ~Terminated
    /\ jobPc[c] = "sem_wait"
    /\ sem > 0
    /\ sem' = sem - 1
    /\ jobPc' = [jobPc EXCEPT ![c] = "dequeue"]
    /\ UNCHANGED <<mainVars, queue, val, totalVars, poolVars, result_buf,
                   resultVars, histVars, auxVars>>

\* Dequeued that copies the front element out and leaves it in the queue.
DequeuedNothing(q) == q

\* What try_dequeue_from_producer leaves in the queue after a success.
Dequeued(q) == Tail(q)

\* try_dequeue_from_producer; on failure break, otherwise p->process(...) up
\* to the point where it returns or has to wait on the fences.  Outcomes are
\* the results vkQueueSubmit may have.
TryDequeue(c, Outcomes) ==
    /\ ~Terminated
    /\ jobPc[c] = "dequeue"
    /\ IF queue = <<>>
       THEN /\ jobPc' = [jobPc EXCEPT ![c] = "exited"]
            /\ emptyDequeues' = [emptyDequeues EXCEPT ![c] = @ + 1]
            /\ UNCHANGED <<queue, val, totalVars, poolVars, dequeues, processCalls,
                           refusals>>
       ELSE LET s == Head(queue) IN
            /\ queue' = Dequeued(queue)
            /\ val' = [val EXCEPT ![c] = s]
            /\ dequeues' = [dequeues EXCEPT ![s] = @ + 1]
            /\ processCalls' = [processCalls EXCEPT ![s] = @ + 1]
            /\ UNCHANGED emptyDequeues
            /\ UpdateTotals(c, s)
            /\ IF available_slots[c] # <<>>
               THEN /\ \E submitted \in Outcomes :
                          Dispatch(c, available_slots[c], s, submitted)
                    /\ jobPc' = [jobPc EXCEPT ![c] = "sem_wait"]
               ELSE /\ jobPc' = [jobPc EXCEPT ![c] = "fence_wait"]
                    /\ UNCHANGED <<poolVars, refusals>>
    /\ UNCHANGED <<mainVars, sem, result_buf, resultVars, auxVars>>

\* vkWaitForFences returned VK_TIMEOUT: no fence was signaled for a minute;
\* the loop waits again.
FenceWaitTimeout(c) ==
    /\ ~Terminated
    /\ jobPc[c] = "fence_wait"
    /\ ~WaitForFencesReady(c)
    /\ UNCHANGED vars

\* vkWaitForFences returned VK_SUCCESS: refill the FIFO from the fence
\* statuses, then pop a slot and send the frame to it; process returns.
FenceWaitSuccess(c, Outcomes) ==
    /\ ~Terminated
    /\ jobPc[c] = "fence_wait"
    /\ WaitForFencesReady(c)
    /\ IF ScanFences(c) = <<>>
       THEN \* front() and pop() on an empty std::queue: undefined behaviour,
            \* nothing is assumed of the thread afterwards.
            /\ jobPc' = [jobPc EXCEPT ![c] = "undefined"]
            /\ UNCHANGED <<poolVars, refusals>>
       ELSE /\ \E submitted \in Outcomes :
                  Dispatch(c, ScanFences(c), val[c], submitted)
            /\ jobPc' = [jobPc EXCEPT ![c] = "sem_wait"]
    /\ UNCHANGED <<mainVars, sharedVars, val, totalVars, result_buf,
                   resultVars, dequeues, processCalls, emptyDequeues, auxVars>>

\* vkWaitForFences returned an error (device lost, out of memory): chk_vk
\* throws out of process and out of the thread's function.
FenceWaitError(c) ==
    /\ ~Terminated
    /\ jobPc[c] = "fence_wait"
    /\ jobPc' = [jobPc EXCEPT ![c] = "terminate"]
    /\ UNCHANGED <<mainVars, sharedVars, val, totalVars, poolVars, result_buf,
                   resultVars, histVars, auxVars>>

(***************************************************************************)
(* The device: it executes a submitted command list, which adds the        *)
(* frame's incidence to the slot's result buffer, and signals the fence    *)
(* given to vkQueueSubmit.                                                 *)
(***************************************************************************)
FrameResult(p, i) ==
    [pt \in Points |-> result_buf[p][i][pt] + Incidence(uniform[p][i], pt)]

GpuComplete(p, i) ==
    /\ ~Terminated
    /\ pending[p][i] > 0
    /\ pending' = [pending EXCEPT ![p][i] = @ - 1]
    /\ result_buf' = [result_buf EXCEPT ![p][i] = FrameResult(p, i)]
    /\ fence_set' = [fence_set EXCEPT ![p][i] = TRUE]
    /\ UNCHANGED <<mainVars, sharedVars, jobVars, totalVars, available_slots,
                   uniform, resultVars, histVars, auxVars>>

(***************************************************************************)
(* The main thread: the producer loop of calculate_yearly_incidence, the   *)
(* joins, and main's loop over the processors.                             *)
(***************************************************************************)
\* ss.next(val); queue.enqueue(t, val)  -- or next() returned false.
Produce ==
    /\ ~Terminated
    /\ mainPc = "produce"
    /\ IF produced < NumSamples
       THEN /\ queue' = Append(queue, produced + 1)
            /\ produced' = produced + 1
            /\ mainPc' = "signal"
       ELSE /\ mainPc' = "notify"
            /\ UNCHANGED <<queue, produced>>
    /\ UNCHANGED <<notified, collected, sem, jobVars, totalVars, poolVars,
                   result_buf, resultVars, histVars, auxVars>>

\* sem.signal() after the enqueue.
Signal ==
    /\ ~Terminated
    /\ mainPc = "signal"
    /\ sem' = sem + 1
    /\ mainPc' = "produce"
    /\ UNCHANGED <<produced, notified, collected, queue, jobVars, totalVars,
                   poolVars, result_buf, resultVars, histVars, auxVars>>

\* JobsSize short by one.
JobsSizeLessOne == NumJobs - 1

\* jobs.size(): the shutdown signals to post.
JobsSize == NumJobs

\* sem.signal(jobs.size()): one sem_post per turn of its loop.
Notify ==
    /\ ~Terminated
    /\ mainPc = "notify"
    /\ IF notified < JobsSize
       THEN /\ sem' = sem + 1
            /\ notified' = notified + 1
            /\ UNCHANGED mainPc
       ELSE /\ mainPc' = "join"
            /\ UNCHANGED <<sem, notified>>
    /\ UNCHANGED <<produced, collected, queue, jobVars, totalVars, poolVars,
                   result_buf, resultVars, histVars, auxVars>>

\* Join returning while consumer threads still run.
JoinWithoutWaiting ==
    /\ ~Terminated
    /\ mainPc = "join"
    /\ mainPc' = "collect"
    /\ UNCHANGED <<produced, notified, collected, sharedVars, jobVars, totalVars,
                   poolVars, result_buf, resultVars, histVars, auxVars>>

\* for(auto &t: jobs) t.join();
Join ==
    /\ ~Terminated
    /\ mainPc = "join"
    /\ \A c \in Jobs : jobPc[c] = "exited"
    /\ mainPc' = "collect"
    /\ UNCHANGED <<produced, notified, collected, sharedVars, jobVars, totalVars,
                   poolVars, result_buf, resultVars, histVars, auxVars>>

\* The sum over task_pool[0..n-1] of ptr[pt].
RECURSIVE SlotsSum(_, _, _)
SlotsSum(p, n, pt) ==
    IF n = 0 THEN 0 ELSE SlotsSum(p, n - 1, pt) + result_buf[p][n - 1][pt]

\* AccumulateResult with accum[i] = ptr[i] in place of +=.
AccumulateOverwrite(p, accum) ==
    [k \in 1..Len(accum) |->
        IF k <= NumPoints THEN result_buf[p][PoolSize(p) - 1][k] ELSE accum[k]]

\* ShadowProcessor::accumulate_result: accum[i] += ptr[i] for every slot and
\* every i < num_points.
AccumulateResult(p, accum) ==
    [k \in 1..Len(accum) |->
        IF k <= NumPoints THEN accum[k] + SlotsSum(p, PoolSize(p), k)
        ELSE accum[k]]

\* One turn of main's loop over ps: add the processor's totals, then
\* p->accumulate_result(result.data()).
Collect ==
    /\ ~Terminated
    /\ mainPc = "collect"
    /\ LET p == collected + 1 IN
       /\ dir_total' = dir_total + sum[p]
       /\ total_count' = total_count + count[p]
       /\ result' = AccumulateResult(p, result)
    /\ collected' = collected + 1
    /\ mainPc' = IF collected + 1 = NumJobs THEN "done" ELSE "collect"
    /\ UNCHANGED <<produced, notified, sharedVars, jobVars, totalVars, poolVars,
                   result_buf, histVars, auxVars>>

Main == Produce \/ Signal \/ Notify \/ Join \/ Collect

\* The results vkQueueSubmit can have: accepted or refused.
SubmitOutcomes == BOOLEAN

Next ==
    \/ Produce
    \/ Signal
    \/ Notify
    \/ Join
    \/ Collect
    \/ \E c \in Jobs : SemWait(c)
    \/ \E c \in Jobs : TryDequeue(c, SubmitOutcomes)
    \/ \E c \in Jobs : FenceWaitTimeout(c)
    \/ \E c \in Jobs : FenceWaitSuccess(c, SubmitOutcomes)
    \/ \E c \in Jobs : FenceWaitError(c)
    \/ \E p \in Jobs : \E i \in Slots(p) : GpuComplete(p, i)

Spec == Init /\ [][Next]_vars

(***************************************************************************)
(* The same program on a device that stays usable (vkWaitForFences never   *)
(* reports an error), with the scheduling the threads and the device       *)
(* provide: every thread that can take a step eventually takes one, and a  *)
(* command list the queue accepted is eventually executed.                 *)
(***************************************************************************)
JobStep(c) ==
    \/ SemWait(c)
    \/ TryDequeue(c, SubmitOutcomes)
    \/ FenceWaitSuccess(c, SubmitOutcomes)

LiveNext ==
    \/ Produce
    \/ Signal
    \/ Notify
    \/ Join
    \/ Collect
    \/ \E c \in Jobs : SemWait(c)
    \/ \E c \in Jobs : TryDequeue(c, SubmitOutcomes)
    \/ \E c \in Jobs : FenceWaitTimeout(c)
    \/ \E c \in Jobs : FenceWaitSuccess(c, SubmitOutcomes)
    \/ \E p \in Jobs : \E i \in Slots(p) : GpuComplete(p, i)

Fairness ==
    /\ WF_vars(Main)
    /\ \A c \in Jobs : WF_vars(JobStep(c))
    /\ \A p \in Jobs : \A i \in Slots(p) : WF_vars(GpuComplete(p, i))

LiveSpec == Init /\ [][LiveNext]_vars /\ Fairness

(***************************************************************************)
(* find_memory_heap.  A memory type's propertyFlags, and the required and  *)
(* prefered masks, are sets of flags; the allowed mask is the set of the   *)
(* indices whose bit is set.                                               *)
(***************************************************************************)
MemFlags == {"DEVICE_LOCAL", "HOST_VISIBLE"}

\* !(allowed & (1 << i)) is false
IsAllowed(mask, i) == i \in mask

\* HasFlags with (propertyFlags & wanted) != 0 in place of == wanted.
HasAnyFlag(flags, wanted) == wanted = {} \/ (flags \cap wanted) # {}

\* (propertyFlags & wanted) == wanted
HasFlags(flags, wanted) == wanted \subseteq flags

\* The allowed types from index i on whose flags contain req.
CandidatesFrom(types, mask, req, i) ==
    {k \in i..(Len(types) - 1) : IsAllowed(mask, k) /\ HasFlags(types[k + 1], req)}

\* FindFrom without the break: every candidate overwrites mtype, so the
\* last candidate is returned whatever its other flags.
FindLastCandidate(types, mask, req, pref, i, m) ==
    LET C == CandidatesFrom(types, mask, req, i) IN
    IF C = {} THEN m ELSE CHOOSE k \in C : \A j \in C : j <= k

\* FindFrom where a candidate lacking pref is kept only if none was kept
\* before: the first candidate is returned unless one with pref exists.
FindKeepFirst(types, mask, req, pref, i, m) ==
    LET C == CandidatesFrom(types, mask, req, i)
        P == {k \in C : HasFlags(types[k + 1], pref)} IN
    IF P # {} THEN CHOOSE k \in P : \A j \in P : k <= j
    ELSE IF C # {} THEN CHOOSE k \in C : \A j \in C : k <= j
    ELSE m

\* The for loop from index i on, with mtype holding m.  memoryTypes[i] of
\* the program is types[i + 1] here.
RECURSIVE FindFrom(_, _, _, _, _, _)
FindFrom(types, mask, req, pref, i, m) ==
    IF i >= Len(types) THEN m
    ELSE IF ~IsAllowed(mask, i) THEN FindFrom(types, mask, req, pref, i + 1, m)
    ELSE IF ~HasFlags(types[i + 1], req) THEN FindFrom(types, mask, req, pref, i + 1, m)
    ELSE IF HasFlags(types[i + 1], pref) THEN i
    ELSE FindFrom(types, mask, req, pref, i + 1, i)

\* mtype starts as memoryTypeCount; if it still is after the loop the
\* function throws std::runtime_error, otherwise it returns mtype.
find_memory_heap(types, mask, req, pref) ==
    LET m == FindFrom(types, mask, req, pref, 0, Len(types)) IN
    [thrown |-> m = Len(types), mtype |-> m]

RECURSIVE TablesOfLen(_)
TablesOfLen(n) ==
    IF n = 0 THEN {<<>>}
    ELSE {Append(tb, f) : tb \in TablesOfLen(n - 1), f \in SUBSET MemFlags}

\* Every memory-type table of at most MaxMemTypes entries.
MemTables == UNION {TablesOfLen(n) : n \in 0..MaxMemTypes}

\* A call of find_memory_heap about to be made, with any arguments.
HeapInit ==
    /\ SysInit
    /\ heapPc = "call"
    /\ mem_props \in MemTables
    /\ allowed \in SUBSET (0..(MaxMemTypes - 1))
    /\ required \in SUBSET MemFlags
    /\ prefered \in SUBSET MemFlags
    /\ mtype = 0
    /\ BufIdle
    /\ XferIdle
    /\ SplitIdle
    /\ SetupIdle
    /\ ProcIdle
    /\ CtorIdle
    /\ LateIdle

FindMemoryHeap ==
    /\ heapPc = "call"
    /\ LET r == find_memory_heap(mem_props, allowed, required, prefered) IN
       /\ heapPc' = IF r.thrown THEN "thrown" ELSE "returned"
       /\ mtype' = r.mtype
    /\ UNCHANGED <<mem_props, allowed, required, prefered, sysVars, bufVars,
                   xferVars, splitVars, setupVars, procVars, ctorVars, lateVars>>

HeapNext == FindMemoryHeap

HeapSpec == HeapInit /\ [][HeapNext]_vars

(***************************************************************************)
(* Construction of a MaybeStagedBuffer: the AccessibleBuffer it wraps,     *)
(* made of one or two Buffer constructions, then the staging Buffer.       *)
(* heapPc, allowed, required, prefered and mtype hold the latest call of   *)
(* find_memory_heap made by a Buffer constructor.                          *)
(***************************************************************************)
UsageFlags == {"STORAGE_BUFFER", "TRANSFER_SRC", "TRANSFER_DST"}

\* BufferAccessDirection: HOST_WILL_WRITE_BIT, HOST_WILL_READ_BIT or both.
Directions ==
    {{"HOST_WILL_WRITE"}, {"HOST_WILL_READ"}, {"HOST_WILL_WRITE", "HOST_WILL_READ"}}

\* The memory-type tables of a device: memoryTypeCount is at least 1.
BufTables == UNION {TablesOfLen(n) : n \in 1..MaxBufMemTypes}

\* mem_reqs.memoryTypeBits as vkGetBufferMemoryRequirements can answer: at
\* least one bit, all below memoryTypeCount.
TypeBits(types) == (SUBSET (0..(Len(types) - 1))) \ {{}}

\* Buffer::Buffer that goes on to allocate after a failed selection, with
\* the index the loop left in mtype.
BufferUnchecked(types, usage, req, pref, bits, createOk, allocOk, h) ==
    LET m == FindFrom(types, bits, req, pref, 0, Len(types)) IN
    IF ~createOk
    THEN [thrown |-> "VulkanCreationError", sel |-> "idle", mtype |-> 0,
          obj |-> NullBuffer, handles |-> h]
    ELSE [thrown |-> "none",
          sel |-> IF m = Len(types) THEN "thrown" ELSE "returned",
          mtype |-> m,
          obj |-> [buf |-> h + 1, mem |-> h + 2, usage |-> usage, mtype |-> m],
          handles |-> h + 2]

\* Buffer::Buffer.  vkCreateBuffer succeeds (createOk) or chk_vk throws;
\* find_memory_heap returns or throws; vkAllocateMemory succeeds (allocOk)
\* or chk_vk throws.  Nothing is caught.  h is the number of handles made
\* before; sel is how the call of find_memory_heap ended, if it was made.
Buffer(types, usage, req, pref, bits, createOk, allocOk, h) ==
    IF ~createOk
    THEN [thrown |-> "VulkanCreationError", sel |-> "idle", mtype |-> 0,
          obj |-> NullBuffer, handles |-> h]
    ELSE LET r == find_memory_heap(types, bits, req, pref) IN
         IF r.thrown
         THEN [thrown |-> "runtime_error", sel |-> "thrown", mtype |-> r.mtype,
               obj |-> NullBuffer, handles |-> h + 1]
         ELSE IF ~allocOk
         THEN [thrown |-> "VulkanCreationError", sel |-> "returned",
               mtype |-> r.mtype, obj |-> NullBuffer, handles |-> h + 1]
         ELSE [thrown |-> "none", sel |-> "returned", mtype |-> r.mtype,
               obj |-> [buf |-> h + 1, mem |-> h + 2, usage |-> usage,
                        mtype |-> r.mtype],
               handles |-> h + 2]

\* The handles a Buffer constructor that made handles h+1.. destroys as it
\* is left: none when it returns; when it throws, the members constructed
\* so far, whose ~ManagedDPVk hands a non-null obj to DestroyFn.
UnwoundNothing(b, h) == {}

Unwound(b, h) == IF b.thrown = "none" THEN {} ELSE (h + 1)..b.handles

\* The handles a Buffer owns: what its destructor destroys.
HandlesOf(obj) == {obj.buf, obj.mem} \ {0}

\* The uint32_t size arguments of the constructors, in bytes.
BufSizes == 1..MaxCount

\* What a Buffer construction b, made with memoryTypeBits bits, the
\* required flags req and the byte size size, leaves behind; locals are
\* the handles of the caller's objects that go out of scope when b throws.
BufferCalled(b, bits, req, size, locals) ==
    /\ buf_size' = IF b.handles > num_handles
                   THEN ((num_handles + 1) :> size) @@ buf_size
                   ELSE buf_size
    /\ destroyed' = destroyed \cup Unwound(b, num_handles)
                       \cup (IF b.thrown = "none" THEN {} ELSE locals)
    /\ heapPc' = b.sel
    /\ allowed' = IF b.sel = "idle" THEN {} ELSE bits
    /\ required' = req
    /\ prefered' = {}
    /\ mtype' = b.mtype
    /\ buffer_thrown' = b.thrown
    /\ num_handles' = b.handles
    /\ UNCHANGED mem_props

\* VK_MEMORY_PROPERTY_DEVICE_LOCAL_BIT, of the second attempt.
RetryRequired == {"DEVICE_LOCAL"}

\* The first attempt asking for no more than the second does.
FirstRequiredRelaxed == {"DEVICE_LOCAL"}

\* VK_MEMORY_PROPERTY_DEVICE_LOCAL_BIT | VK_MEMORY_PROPERTY_HOST_VISIBLE_BIT
FirstRequired == {"DEVICE_LOCAL", "HOST_VISIBLE"}

\* The staging buffer given the transfer bits of the device buffer.
StagingUsageOfPrimary(dir) ==
    (IF "HOST_WILL_WRITE" \in dir THEN {"TRANSFER_DST"} ELSE {})
        \cup (IF "HOST_WILL_READ" \in dir THEN {"TRANSFER_SRC"} ELSE {})

\* The usage bits of the staging buffer: the transfer direction is the
\* opposite of the device buffer's.
StagingUsage(dir) ==
    (IF "HOST_WILL_WRITE" \in dir THEN {"TRANSFER_SRC"} ELSE {})
        \cup (IF "HOST_WILL_READ" \in dir THEN {"TRANSFER_DST"} ELSE {})

\* RetryUsage with the two transfer bits exchanged.
RetryUsageSwapped(usage, dir) == usage \cup StagingUsage(dir)

\* The catch block's usage: transfer bits for the desired directions.
RetryUsage(usage, dir) ==
    usage \cup (IF "HOST_WILL_WRITE" \in dir THEN {"TRANSFER_DST"} ELSE {})
          \cup (IF "HOST_WILL_READ" \in dir THEN {"TRANSFER_SRC"} ELSE {})

\* A MaybeStagedBuffer constructor about to run, with any arguments, on a
\* device with any memory-type table.  is_host_visible of ab is
\* indeterminate until it is assigned.
BufInit ==
    /\ SysInit
    /\ heapPc = "idle"
    /\ mem_props \in BufTables
    /\ allowed = {}
    /\ required = {}
    /\ prefered = {}
    /\ mtype = 0
    /\ bufPc = "first"
    /\ usage_arg \in SUBSET UsageFlags
    /\ host_direction \in Directions
    /\ ab \in {[base |-> NullBuffer, is_host_visible |-> v] : v \in BOOLEAN}
    /\ staging_buf = NullBuffer
    /\ this_buf = NullBuffer
    /\ buffer_thrown = "none"
    /\ first_attempt = "none"
    /\ retry_attempt = "none"
    /\ num_handles = 0
    /\ size_arg \in BufSizes
    /\ buf_size = <<>>
    /\ destroyed = {}
    /\ XferIdle
    /\ SplitIdle
    /\ SetupIdle
    /\ ProcIdle
    /\ CtorIdle
    /\ LateIdle

\* AccessibleBuffer's try block.
FirstAttempt ==
    /\ bufPc = "first"
    /\ \E bits \in TypeBits(mem_props), createOk \in BOOLEAN, allocOk \in BOOLEAN :
          LET b == Buffer(mem_props, usage_arg, FirstRequired, {}, bits,
                          createOk, allocOk, num_handles) IN
          /\ BufferCalled(b, bits, FirstRequired, size_arg, {})
          /\ IF b.thrown = "none"
             THEN /\ ab' = [base |-> b.obj, is_host_visible |-> TRUE]
                  /\ first_attempt' = "ok"
                  /\ bufPc' = "staging"
             ELSE /\ ab' = ab
                  /\ first_attempt' = "failed"
                  /\ bufPc' = "retry"
    /\ UNCHANGED <<usage_arg, host_direction, staging_buf, this_buf,
                   retry_attempt, size_arg, sysVars, xferVars, splitVars, setupVars, procVars, ctorVars, lateVars>>

\* AccessibleBuffer's catch block; what it throws leaves both constructors.
Retry ==
    /\ bufPc = "retry"
    /\ \E bits \in TypeBits(mem_props), createOk \in BOOLEAN, allocOk \in BOOLEAN :
          LET b == Buffer(mem_props, RetryUsage(usage_arg, host_direction),
                          RetryRequired, {}, bits, createOk, allocOk,
                          num_handles) IN
          /\ BufferCalled(b, bits, RetryRequired, size_arg, {})
          /\ IF b.thrown = "none"
             THEN /\ ab' = [base |-> b.obj, is_host_visible |-> FALSE]
                  /\ retry_attempt' = "ok"
                  /\ bufPc' = "staging"
             ELSE /\ ab' = ab
                  /\ retry_attempt' = "failed"
                  /\ bufPc' = "failed"
    /\ UNCHANGED <<usage_arg, host_direction, staging_buf, this_buf,
                   first_attempt, size_arg, sysVars, xferVars, splitVars, setupVars, procVars, ctorVars, lateVars>>

\* if(!ab.is_host_visible) is false: no staging buffer.
SkipStaging ==
    /\ bufPc = "staging"
    /\ ab.is_host_visible
    /\ bufPc' = "move"
    /\ UNCHANGED <<usage_arg, host_direction, ab, staging_buf, this_buf,
                   buffer_thrown, first_attempt, retry_attempt, num_handles,
                   size_arg, buf_size, destroyed, heapVars, sysVars, xferVars, splitVars, setupVars, procVars, ctorVars, lateVars>>

\* if(!ab.is_host_visible): staging_buf = std::make_unique<Buffer>(...).
\* What it throws leaves the constructor, and the local ab is destroyed.
MakeStaging ==
    /\ bufPc = "staging"
    /\ ~ab.is_host_visible
    /\ \E bits \in TypeBits(mem_props), createOk \in BOOLEAN, allocOk \in BOOLEAN :
          LET b == Buffer(mem_props, StagingUsage(host_direction),
                          {"HOST_VISIBLE"}, {}, bits, createOk, allocOk,
                          num_handles) IN
          /\ BufferCalled(b, bits, {"HOST_VISIBLE"}, size_arg, HandlesOf(ab.base))
          /\ IF b.thrown = "none"
             THEN staging_buf' = b.obj /\ ab' = ab /\ bufPc' = "move"
             ELSE /\ staging_buf' = staging_buf
                  /\ ab' = [ab EXCEPT !.base = NullBuffer]
                  /\ bufPc' = "failed"
    /\ UNCHANGED <<usage_arg, host_direction, this_buf, first_attempt,
                   retry_attempt, size_arg, sysVars, xferVars, splitVars, setupVars, procVars, ctorVars, lateVars>>

\* *static_cast<Buffer*>(this) = static_cast<Buffer>(std::move(ab)): the
\* handles move from ab to this, is_host_visible stays.
MoveBase ==
    /\ bufPc = "move"
    /\ this_buf' = ab.base
    /\ ab' = [ab EXCEPT !.base = NullBuffer]
    /\ bufPc' = "constructed"
    /\ UNCHANGED <<usage_arg, host_direction, staging_buf, buffer_thrown,
                   first_attempt, retry_attempt, num_handles, size_arg,
                   buf_size, destroyed, heapVars, sysVars, xferVars, splitVars, setupVars, procVars, ctorVars, lateVars>>

\* get_visible_mem without the staging test.
get_primary_mem == this_buf.mem

\* MaybeStagedBuffer::get_visible_mem
get_visible_mem ==
    IF staging_buf # NullBuffer THEN staging_buf.mem ELSE this_buf.mem

BufNext == FirstAttempt \/ Retry \/ SkipStaging \/ MakeStaging \/ MoveBase

BufSpec == BufInit /\ [][BufNext]_vars

(***************************************************************************)
(* BufferTransferer.  Two buffers of MaxCount float elements: "A", which   *)
(* is not host-visible, and "B", which is or is not.  Memory is a          *)
(* sequence of elements; "junk" is the content of memory nobody wrote.     *)
(***************************************************************************)
XferBufs == {"A", "B"}

\* uint32_t arithmetic is modulo Word32.
Word32 == 2 ^ WordBits

\* sizeof(float)
SizeofT == 4

\* What a callback stores in "A"; in "B" it stores "other".
Values == {"a", "b"}

\* The element sequences of length n a callback can store in buffer b.
RECURSIVE Stores(_, _)
Stores(b, n) ==
    IF n = 0 THEN {<<>>}
    ELSE {Append(w, v) : w \in Stores(b, n - 1),
                         v \in IF b = "A" THEN Values ELSE {"other"}}

\* Memory of n elements just allocated.
Fresh(n) == [i \in 1..n |-> "junk"]

\* count * sizeof(T), as uint32_t
TransferSize(cnt) == (cnt * SizeofT) % Word32

\* tmp is only ever allocated once: if(!tmp) in place of the size test.
TmpMissing(ts, size) == ts = 0

\* TmpTooSmall making a new scratch buffer on every call.
TmpAlwaysRegrown(ts, size) == TRUE

\* if(tmp_size < size)
TmpTooSmall(ts, size) == ts < size

\* vkCmdCopyBuffer of n elements from offset 0 of src to offset 0 of dst.
\* Elements outside src read as junk, elements outside dst are not stored.
CopyBuffer(src, dst, n) ==
    [i \in 1..Len(dst) |->
        IF i > n THEN dst[i] ELSE IF i <= Len(src) THEN src[i] ELSE "junk"]

\* The callback storing w from the start of the mapped memory.
Store(mapped, w) ==
    [i \in 1..Len(mapped) |-> IF i <= Len(w) THEN w[i] ELSE mapped[i]]

\* The first n elements the callback finds in the mapped memory.
Load(mapped, n) ==
    [i \in 1..n |-> IF i <= Len(mapped) THEN mapped[i] ELSE "junk"]

\* indirect_transfer on buffer b, the callback storing w when the host
\* will write: the scratch memory after the (re)allocation, after the copy
\* from the device, after the callback, and the device memory at the end.
Indirect(b, cnt, dir, w) ==
    LET size == TransferSize(cnt)
        n == size \div SizeofT
        regrow == TmpTooSmall(tmp_size, size)
        tmp1 == IF regrow THEN Fresh(n) ELSE tmp
        tmp2 == IF "HOST_WILL_READ" \in dir THEN CopyBuffer(dev_mem[b], tmp1, n)
                ELSE tmp1
        tmp3 == IF "HOST_WILL_WRITE" \in dir THEN Store(tmp2, w) ELSE tmp2
    IN  [regrow |-> regrow,
         tmp_size |-> IF regrow THEN size ELSE tmp_size,
         allocated |-> tmp1,
         mapped |-> tmp2,
         seen |-> Load(tmp2, cnt),
         stored |-> tmp3,
         dev |-> IF "HOST_WILL_WRITE" \in dir THEN CopyBuffer(tmp3, dev_mem[b], n)
                 ELSE dev_mem[b]]

\* The record of the latest write-only transfer to "A" after a completed
\* transfer on b that did or did not use the scratch buffer.
WrittenAfter(b, cnt, dir, w, used, regrow) ==
    IF b = "A" /\ dir = {"HOST_WILL_WRITE"}
    THEN [count |-> cnt, values |-> w, reused |-> FALSE, regrown |-> FALSE]
    ELSE IF b = "A" /\ "HOST_WILL_WRITE" \in dir THEN NoTransfer
    ELSE IF written = NoTransfer THEN NoTransfer
    ELSE [written EXCEPT !.reused = @ \/ used, !.regrown = @ \/ regrow]

\* What the callback of a completed transfer on b was shown, kept when b
\* is "A" and the transfer read-only.
PresentedAfter(b, cnt, dir, seen) ==
    IF b = "A" /\ dir = {"HOST_WILL_READ"}
    THEN [count |-> cnt, values |-> seen, reused |-> FALSE, regrown |-> FALSE]
    ELSE NoTransfer

\* A BufferTransferer just constructed, and two buffers nobody wrote.
XferInit ==
    /\ SysInit
    /\ HeapIdle
    /\ BufIdle
    /\ SplitIdle
    /\ SetupIdle
    /\ ProcIdle
    /\ CtorIdle
    /\ LateIdle
    /\ dev_mem = [b \in XferBufs |-> Fresh(MaxCount)]
    /\ visible \in {[b \in XferBufs |-> b = "B" /\ v] : v \in BOOLEAN}
    /\ tmp = <<>>
    /\ tmp_size = 0
    /\ cb = FALSE
    /\ written = NoTransfer
    /\ presented = NoTransfer

\* transfer on a buffer that is not host-visible: indirect_transfer, every
\* Vulkan call succeeding.
IndirectTransfer ==
    \E b \in XferBufs, cnt \in 1..MaxCount, dir \in Directions :
        /\ ~visible[b]
        /\ \E w \in Stores(b, cnt) :
              LET t == Indirect(b, cnt, dir, w) IN
              /\ tmp' = t.stored
              /\ tmp_size' = t.tmp_size
              /\ cb' = TRUE
              /\ dev_mem' = [dev_mem EXCEPT ![b] = t.dev]
              /\ written' = WrittenAfter(b, cnt, dir, w, TRUE, t.regrow)
              /\ presented' = PresentedAfter(b, cnt, dir, t.seen)
        /\ UNCHANGED <<visible, sysVars, heapVars, bufVars, splitVars, setupVars, procVars, ctorVars, lateVars>>

\* indirect_transfer leaving by an exception.  "tmp": the Buffer constructor
\* of the scratch buffer throws.  "before": the command buffer allocation,
\* the mapping or a chk_vk of the read half throws, so the callback does not
\* run; the copy to the scratch buffer was or was not executed.  "after": a
\* chk_vk of the write half throws after the callback; the copy to the
\* device was or was not executed.
IndirectTransferThrows ==
    \E b \in XferBufs, cnt \in 1..MaxCount, dir \in Directions,
       at \in {"tmp", "before", "after"}, executed \in BOOLEAN :
        /\ ~visible[b]
        /\ \E w \in Stores(b, cnt) :
              LET t == Indirect(b, cnt, dir, w) IN
              /\ at = "tmp" => t.regrow
              /\ at = "after" => "HOST_WILL_WRITE" \in dir
              /\ tmp' = IF at = "tmp" THEN tmp
                        ELSE IF at = "after" THEN t.stored
                        ELSE IF executed THEN t.mapped ELSE t.allocated
              /\ tmp_size' = IF at = "tmp" THEN tmp_size ELSE t.tmp_size
              /\ cb' = IF at = "tmp" THEN cb
                       ELSE IF at = "after" THEN TRUE ELSE cb \/ executed
              /\ dev_mem' = IF at = "after" /\ executed
                            THEN [dev_mem EXCEPT ![b] = t.dev] ELSE dev_mem
              /\ written' = IF at = "after" /\ b = "A" THEN NoTransfer
                            ELSE IF at = "tmp" \/ written = NoTransfer THEN written
                            ELSE [written EXCEPT !.reused = TRUE,
                                                 !.regrown = @ \/ t.regrow]
              /\ presented' = NoTransfer
        /\ UNCHANGED <<visible, sysVars, heapVars, bufVars, splitVars, setupVars, procVars, ctorVars, lateVars>>

\* transfer on a host-visible buffer: the callback works on the mapped
\* memory of the buffer itself.
DirectTransfer ==
    \E b \in XferBufs, cnt \in 1..MaxCount, dir \in Directions :
        /\ visible[b]
        /\ \E w \in Stores(b, cnt) :
              /\ dev_mem' = [dev_mem EXCEPT ![b] =
                                IF "HOST_WILL_WRITE" \in dir THEN Store(@, w) ELSE @]
              /\ written' = WrittenAfter(b, cnt, dir, w, FALSE, FALSE)
              /\ presented' = PresentedAfter(b, cnt, dir, Load(dev_mem[b], cnt))
        /\ UNCHANGED <<visible, tmp, tmp_size, cb, sysVars, heapVars, bufVars, splitVars, setupVars, procVars, ctorVars, lateVars>>

XferNext == IndirectTransfer \/ IndirectTransferThrows \/ DirectTransfer

XferSpec == XferInit /\ [][XferNext]_vars

(***************************************************************************)
(* WorkGroupSplit.  Every uint32_t operation is taken modulo Word32.       *)
(***************************************************************************)
\* The values of a uint32_t.
Word == 0..(Word32 - 1)

\* The value a uint32_t holds after being assigned x.
U32(x) == x % Word32

\* a / b rounded down instead of up, except that a quotient of 0 becomes 1.
DivDownOrOne(a, b) == U32(IF a < b THEN 1 ELSE a \div b)

\* a / b + (a % b > 0)
DivUp(a, b) == U32((a \div b) + (IF a % b > 0 THEN 1 ELSE 0))

\* std::max(maxComputeWorkGroupInvocations, maxComputeWorkGroupSize[0])
Limit(dl) ==
    IF dl.maxComputeWorkGroupInvocations >= dl.maxComputeWorkGroupSizeX
    THEN dl.maxComputeWorkGroupInvocations
    ELSE dl.maxComputeWorkGroupSizeX

\* A WorkGroupSplit about to be constructed, for any work_size >= 1 and
\* any two limits >= 1.
SplitInit ==
    /\ SysInit
    /\ HeapIdle
    /\ BufIdle
    /\ XferIdle
    /\ SetupIdle
    /\ ProcIdle
    /\ CtorIdle
    /\ LateIdle
    /\ splitPc = "call"
    /\ dlimits \in [maxComputeWorkGroupInvocations : 1..MaxLimit,
                    maxComputeWorkGroupSizeX : 1..MaxLimit]
    /\ work_size \in Word \ {0}
    /\ num_groups = 0
    /\ group_x_size = 0

\* WorkGroupSplit::WorkGroupSplit
WorkGroupSplit ==
    /\ splitPc = "call"
    /\ LET limit == Limit(dlimits)
           groups == DivUp(work_size, limit) IN
       /\ num_groups' = groups
       /\ group_x_size' = DivUp(work_size, groups)
    /\ splitPc' = "done"
    /\ UNCHANGED <<dlimits, work_size, sysVars, heapVars, bufVars, xferVars,
                   setupVars, procVars, ctorVars, lateVars>>

SplitNext == WorkGroupSplit

SplitSpec == SplitInit /\ [][SplitNext]_vars

(***************************************************************************)
(* create_procs_from_devices.  A physical device is its queue families     *)
(* (qfp[i]: the family has VK_QUEUE_GRAPHICS_BIT) and whether creating     *)
(* the logical device and the ShadowProcessor on it succeeds.              *)
(***************************************************************************)
RECURSIVE FamiliesOfLen(_)
FamiliesOfLen(n) ==
    IF n = 0 THEN {<<>>}
    ELSE {Append(q, g) : q \in FamiliesOfLen(n - 1), g \in BOOLEAN}

PhysicalDevices ==
    [qfp : UNION {FamiliesOfLen(n) : n \in 0..MaxQueueFamilies},
     setup_ok : BOOLEAN]

RECURSIVE DeviceLists(_)
DeviceLists(n) ==
    IF n = 0 THEN {<<>>}
    ELSE {Append(l, pd) : l \in DeviceLists(n - 1), pd \in PhysicalDevices}

\* The queue families create_if_has_graphics selects.
used_qf(pd) == {i \in 1..Len(pd.qfp) : pd.qfp[i]}

\* create_if_has_graphics: what the task of device pd ends with.
create_if_has_graphics(pd) ==
    IF used_qf(pd) = {} THEN "NoComputeQueueFamily"
    ELSE IF ~pd.setup_ok THEN "exception"
    ELSE "processor"

\* The first loop: a task is pushed for the first device and the loop is
\* left by its break, so no other device gets a task.
LaunchLoop(devs) == IF devs = <<>> THEN <<>> ELSE <<1>>

\* create_procs_from_devices called on any list of devices.
SetupInit ==
    /\ SysInit
    /\ HeapIdle
    /\ BufIdle
    /\ XferIdle
    /\ SplitIdle
    /\ ProcIdle
    /\ CtorIdle
    /\ LateIdle
    /\ setupPc = "launch"
    /\ pds \in UNION {DeviceLists(n) : n \in 0..MaxDevices}
    /\ create_work = <<>>
    /\ next_future = 1
    /\ processors = <<>>

\* for(auto &pd: pds) { create_work.push_back(std::async(...)); break; }
LaunchTasks ==
    /\ setupPc = "launch"
    /\ create_work' = LaunchLoop(pds)
    /\ setupPc' = "collect"
    /\ UNCHANGED <<pds, next_future, processors, sysVars, heapVars, bufVars,
                   xferVars, splitVars, procVars, ctorVars, lateVars>>

\* One turn of for(auto &f: create_work): f.get() returns the processor,
\* which is pushed, or rethrows what the task threw, which is swallowed.
GetFuture ==
    /\ setupPc = "collect"
    /\ next_future <= Len(create_work)
    /\ LET k == create_work[next_future] IN
       processors' = IF create_if_has_graphics(pds[k]) = "processor"
                     THEN Append(processors, k) ELSE processors
    /\ next_future' = next_future + 1
    /\ UNCHANGED <<setupPc, pds, create_work, sysVars, heapVars, bufVars,
                   xferVars, splitVars, procVars, ctorVars, lateVars>>

\* After the loop: exit(1) if(processors.empty()), else return processors.
FinishSetup ==
    /\ setupPc = "collect"
    /\ next_future > Len(create_work)
    /\ setupPc' = IF processors = <<>> THEN "exit" ELSE "returned"
    /\ UNCHANGED <<pds, create_work, next_future, processors, sysVars,
                   heapVars, bufVars, xferVars, splitVars, procVars, ctorVars, lateVars>>

SetupNext == LaunchTasks \/ GetFuture \/ FinishSetup

SetupSpec == SetupInit /\ [][SetupNext]_vars

(***************************************************************************)
(* ShadowProcessor::process followed statement by statement on the first  *)
(* processor, called over and over by one thread while the device executes *)
(* the submitted frames.  The mapped uniform data of a slot (params) reach *)
(* the device (uniform) when the mapped range is flushed.                  *)
(***************************************************************************)
\* The processor whose calls are followed.
Followed == {p \in Jobs : \A q \in Jobs : p <= q}

\* What vkWaitForFences can return.
VkWaitResults == {"VK_SUCCESS", "VK_TIMEOUT", "VK_ERROR_DEVICE_LOST"}

\* WaitAgain leaving the loop on VK_TIMEOUT too.
WaitAgainNever(r) == FALSE

\* do { ... } while (ret == VK_TIMEOUT);
WaitAgain(r) == r = "VK_TIMEOUT"

\* chk_vk(result): throws VulkanCreationError unless result is VK_SUCCESS.
chk_vk(r) == r # "VK_SUCCESS"

\* Where process is after vkWaitForFences returned r.
AfterWait(r) ==
    IF WaitAgain(r) THEN "wait" ELSE IF chk_vk(r) THEN "thrown" ELSE "scan"

\* Flush that leaves the device's copy as it was.
FlushNothing(dev, host, i) == dev

\* global_map.flush(): the device sees what the host wrote to slot i.
Flush(dev, host, i) == [dev EXCEPT ![i] = host[i]]

\* What no statement of process and no device step changes.
procFrame == <<mainVars, sharedVars, jobVars, resultVars, dequeues, processCalls,
               emptyDequeues, heapVars, bufVars, xferVars, splitVars, setupVars,
               ctorVars, lateVars>>

ProcInit ==
    /\ SysInit
    /\ HeapIdle
    /\ BufIdle
    /\ XferIdle
    /\ SplitIdle
    /\ SetupIdle
    /\ CtorIdle
    /\ LateIdle
    /\ procPc = "ready"
    /\ direction = 0
    /\ ret = "none"
    /\ scan_i = 0
    /\ cur_task_idx = 0
    /\ params \in {[i \in Slots(p) |-> 0] : p \in Followed}
    /\ calls = 0
    /\ timeouts = 0
    /\ submit_calls = 0
    /\ last_submit = <<>>

\* process(p) is called: sum += sun; ++count; if(available_slots.empty())
ProcessCall(p, s) ==
    /\ procPc = "ready"
    /\ calls < MaxCalls
    /\ UpdateTotals(p, s)
    /\ direction' = s
    /\ calls' = calls + 1
    /\ timeouts' = 0
    /\ ret' = "none"
    /\ procPc' = IF available_slots[p] = <<>> THEN "wait" ELSE "front"
    /\ UNCHANGED <<scan_i, cur_task_idx, params, submit_calls, last_submit,
                   poolVars, result_buf, refusals, procFrame>>

\* ret = vkWaitForFences(..., VK_FALSE, one minute) returns r: VK_SUCCESS
\* when a fence of the set is signaled, VK_TIMEOUT when the minute passed
\* with none signaled, an error at any time.
WaitForFences(p, r) ==
    /\ procPc = "wait"
    /\ r = "VK_SUCCESS" => WaitForFencesReady(p)
    /\ r = "VK_TIMEOUT" => ~WaitForFencesReady(p) /\ timeouts < MaxTimeouts
    /\ ret' = r
    /\ timeouts' = IF r = "VK_TIMEOUT" THEN timeouts + 1 ELSE timeouts
    /\ procPc' = AfterWait(r)
    /\ scan_i' = 0
    /\ UNCHANGED <<direction, cur_task_idx, params, calls, submit_calls,
                   last_submit, totalVars, poolVars, result_buf, refusals,
                   procFrame>>

\* One turn of for(i = 0; i < fence_set.size(); ++i), or its end.
ScanStep(p) ==
    /\ procPc = "scan"
    /\ IF scan_i < PoolSize(p)
       THEN /\ available_slots' =
                  [available_slots EXCEPT
                     ![p] = IF FenceStatus(p, scan_i) THEN Append(@, scan_i) ELSE @]
            /\ scan_i' = scan_i + 1
            /\ procPc' = procPc
       ELSE /\ procPc' = "front"
            /\ UNCHANGED <<available_slots, scan_i>>
    /\ UNCHANGED <<direction, ret, cur_task_idx, params, calls, timeouts,
                   submit_calls, last_submit, totalVars, fence_set, pending,
                   uniform, result_buf, refusals, procFrame>>

\* task_idx = available_slots.front(); available_slots.pop();
\* vkResetFences(d, 1, &fence_set[task_idx]);  front() of an empty queue is
\* undefined.
AcquireSlot(p) ==
    /\ procPc = "front"
    /\ IF available_slots[p] = <<>>
       THEN /\ procPc' = "undefined"
            /\ UNCHANGED <<cur_task_idx, available_slots, fence_set>>
       ELSE /\ cur_task_idx' = Head(available_slots[p])
            /\ available_slots' = [available_slots EXCEPT ![p] = Tail(@)]
            /\ fence_set' = [fence_set EXCEPT ![p][Head(available_slots[p])] = FALSE]
            /\ procPc' = "write"
    /\ UNCHANGED <<direction, ret, scan_i, params, calls, timeouts, submit_calls,
                   last_submit, totalVars, pending, uniform, result_buf, refusals,
                   procFrame>>

\* compute_frame: params->orientation = ...; params->suns_direction = direction;
WriteParams(p) ==
    /\ procPc = "write"
    /\ params' = [params EXCEPT ![cur_task_idx] = direction]
    /\ procPc' = "flush"
    /\ UNCHANGED <<direction, ret, scan_i, cur_task_idx, calls, timeouts,
                   submit_calls, last_submit, totalVars, poolVars, result_buf,
                   refusals, procFrame>>

\* compute_frame: global_map.flush();
FlushParams(p) ==
    /\ procPc = "flush"
    /\ uniform' = [uniform EXCEPT ![p] = Flush(@, params, cur_task_idx)]
    /\ procPc' = "submit"
    /\ UNCHANGED <<direction, ret, scan_i, cur_task_idx, params, calls, timeouts,
                   submit_calls, last_submit, totalVars, available_slots,
                   fence_set, pending, result_buf, refusals, procFrame>>

\* compute_frame: vkQueueSubmit(queue, 1, &si, frame_fence.get()); its
\* result is dropped, and compute_frame and process return.
QueueSubmit(p, accepted) ==
    /\ procPc = "submit"
    /\ pending' = [pending EXCEPT ![p][cur_task_idx] = @ + (IF accepted THEN 1 ELSE 0)]
    /\ refusals' = refusals + (IF accepted THEN 0 ELSE 1)
    /\ submit_calls' = submit_calls + 1
    /\ last_submit' = [slot |-> cur_task_idx, fence |-> cur_task_idx,
                       data |-> uniform[p][cur_task_idx], accepted |-> accepted]
    /\ procPc' = "ready"
    /\ UNCHANGED <<direction, ret, scan_i, cur_task_idx, params, calls, timeouts,
                   totalVars, available_slots, fence_set, uniform, result_buf,
                   procFrame>>

ProcNext ==
    \E p \in Followed :
        \/ \E s \in Samples : ProcessCall(p, s)
        \/ \E r \in VkWaitResults : WaitForFences(p, r)
        \/ ScanStep(p)
        \/ AcquireSlot(p)
        \/ WriteParams(p)
        \/ FlushParams(p)
        \/ \E accepted \in SubmitOutcomes : QueueSubmit(p, accepted)
        \/ \E i \in Slots(p) : GpuComplete(p, i)

ProcSpec == ProcInit /\ [][ProcNext]_vars

(***************************************************************************)
(* ShadowProcessor::ShadowProcessor: the descriptor pool and the loop that *)
(* fills task_pool, fence_set and available_slots, on any list of queue    *)
(* families; then the fence resets of process and the fence signals of the *)
(* device, which are all a run does to these members.  A fence handle is   *)
(* the pair <<family, queue>> of the TaskSlot that created it.             *)
(***************************************************************************)
\* static const unsigned SLOTS_PER_QUEUE = 3;
SLOTS_PER_QUEUE == 3

\* maxSets of the VkDescriptorPoolCreateInfo.
DescPoolMaxSets == 2

\* descriptorSetCount of the VkDescriptorSetAllocateInfo of one slot.
SetsPerSlot == 2

\* The descriptor types of the pool.
DescriptorTypes == {"UNIFORM_BUFFER", "STORAGE_BUFFER", "COMBINED_IMAGE_SAMPLER"}

\* for(auto &qf: queues) num_slots = qf.second.size() * SLOTS_PER_QUEUE;
\* from family k on, with acc the value of num_slots so far.
RECURSIVE NumSlotsLoop(_, _, _)
NumSlotsLoop(qs, k, acc) ==
    IF k > Len(qs) THEN acc
    ELSE NumSlotsLoop(qs, k + 1, qs[k] * SLOTS_PER_QUEUE)

\* dps: the descriptors of each type the pool is created for.
DescriptorPoolSizes(n) ==
    [t \in DescriptorTypes |-> IF t = "STORAGE_BUFFER" THEN 2 * n ELSE n]

\* The descriptors of each type in the two sets of one slot: the uniform
\* buffer of uniform_desc_set_layout, the sampler and the two storage
\* buffers of comp_sampler_dset_layout.
SlotDescriptors ==
    [t \in DescriptorTypes |-> IF t = "STORAGE_BUFFER" THEN 2 ELSE 1]

\* The pool has room for the sets of one more slot.
PoolHasRoom(pool) ==
    /\ pool.sets + SetsPerSlot <= pool.maxSets
    /\ \A t \in DescriptorTypes : pool.used[t] + SlotDescriptors[t] <= pool.sizes[t]

\* PushedIndex counting the slots from 1.
PushedIndexFromOne(pool) == Len(pool)

\* available_slots.push(task_pool.size()-1)
PushedIndex(pool) == Len(pool) - 1

\* The lists of n queue families, each with its number of queues.
RECURSIVE QueueLists(_)
QueueLists(n) ==
    IF n = 0 THEN {<<>>}
    ELSE {Append(l, q) : l \in QueueLists(n - 1), q \in 1..MaxFamilyQueues}

\* The fence handles in fence_set.
FenceHandles == {ctor_fence_set[i] : i \in 1..Len(ctor_fence_set)}

CtorInit ==
    /\ SysInit
    /\ HeapIdle
    /\ BufIdle
    /\ XferIdle
    /\ SplitIdle
    /\ SetupIdle
    /\ ProcIdle
    /\ LateIdle
    /\ ctorPc = "begin"
    /\ queues \in UNION {QueueLists(n) : n \in 1..MaxQueueFamilies}
    /\ num_slots = 0
    /\ desc_pool = <<>>
    /\ task_pool = <<>>
    /\ ctor_fence_set = <<>>
    /\ ctor_available_slots = <<>>
    /\ signaled = {}
    /\ next_qf = 1
    /\ next_q = 1

\* The loop over queues that sets num_slots, the descriptor pool,
\* task_pool.reserve(num_slots).
CreatePools ==
    /\ ctorPc = "begin"
    /\ num_slots' = NumSlotsLoop(queues, 1, 0)
    /\ desc_pool' = [maxSets |-> DescPoolMaxSets,
                     sizes |-> DescriptorPoolSizes(num_slots'),
                     sets |-> 0,
                     used |-> [t \in DescriptorTypes |-> 0]]
    /\ ctorPc' = "slots"
    /\ UNCHANGED <<queues, task_pool, ctor_fence_set, ctor_available_slots,
                   signaled, next_qf, next_q, sysVars, heapVars, bufVars,
                   xferVars, splitVars, setupVars, procVars, lateVars>>

\* One turn of for(auto& q: qf.second): the TaskSlot is emplaced with its
\* fence created signaled; create_command_buffer allocates its two
\* descriptor sets, which succeeds when the pool has room and otherwise
\* succeeds or fails as the driver decides, and chk_vk throws on failure;
\* then fence_set.push_back and available_slots.push.
EmplaceSlot(allocated) ==
    /\ ctorPc = "slots"
    /\ next_qf <= Len(queues)
    /\ PoolHasRoom(desc_pool) => allocated
    /\ LET fence == <<next_qf, next_q>>
           slot == [frame_fence |-> fence, queue_family |-> next_qf,
                    queue |-> next_q]
       IN
       /\ task_pool' = Append(task_pool, slot)
       /\ signaled' = signaled \cup {fence}
       /\ IF allocated
          THEN /\ desc_pool' =
                     [desc_pool EXCEPT
                        !.sets = @ + SetsPerSlot,
                        !.used = [t \in DescriptorTypes |-> @[t] + SlotDescriptors[t]]]
               /\ ctor_fence_set' = Append(ctor_fence_set, fence)
               /\ ctor_available_slots' =
                     Append(ctor_available_slots, PushedIndex(task_pool'))
               /\ IF next_q < queues[next_qf]
                  THEN next_q' = next_q + 1 /\ next_qf' = next_qf
                  ELSE next_q' = 1 /\ next_qf' = next_qf + 1
               /\ ctorPc' = ctorPc
          ELSE /\ ctorPc' = "thrown"
               /\ UNCHANGED <<desc_pool, ctor_fence_set, ctor_available_slots,
                              next_qf, next_q>>
    /\ UNCHANGED <<queues, num_slots, sysVars, heapVars, bufVars, xferVars,
                   splitVars, setupVars, procVars, lateVars>>

\* The loop over queues is over: the constructor returns.
Constructed ==
    /\ ctorPc = "slots"
    /\ next_qf > Len(queues)
    /\ ctorPc' = "constructed"
    /\ UNCHANGED <<queues, num_slots, desc_pool, task_pool, ctor_fence_set,
                   ctor_available_slots, signaled, next_qf, next_q, sysVars,
                   heapVars, bufVars, xferVars, splitVars, setupVars, procVars, lateVars>>

\* process: vkResetFences(d, 1, &fence_set[task_idx]) on a signaled fence.
ResetFence(i) ==
    /\ ctorPc \in {"constructed", "running"}
    /\ ctor_fence_set[i + 1] \in signaled
    /\ signaled' = signaled \ {ctor_fence_set[i + 1]}
    /\ ctorPc' = "running"
    /\ UNCHANGED <<queues, num_slots, desc_pool, task_pool, ctor_fence_set,
                   ctor_available_slots, next_qf, next_q, sysVars, heapVars,
                   bufVars, xferVars, splitVars, setupVars, procVars, lateVars>>

\* The device signals the fence of a submitted frame.
SignalFence(f) ==
    /\ ctorPc = "running"
    /\ f \notin signaled
    /\ signaled' = signaled \cup {f}
    /\ UNCHANGED <<ctorPc, queues, num_slots, desc_pool, task_pool,
                   ctor_fence_set, ctor_available_slots, next_qf, next_q,
                   sysVars, heapVars, bufVars, xferVars, splitVars, setupVars,
                   procVars, lateVars>>

CtorNext ==
    \/ CreatePools
    \/ \E allocated \in BOOLEAN : EmplaceSlot(allocated)
    \/ Constructed
    \/ \E i \in 0..(Len(ctor_fence_set) - 1) : ResetFence(i)
    \/ \E f \in FenceHandles : SignalFence(f)

CtorSpec == CtorInit /\ [][CtorNext]_vars

(***************************************************************************)
(* BufferTransferer::transfer and indirect_transfer followed statement by  *)
(* statement, called over and over on one BufferTransferer while the queue *)
(* executes what is submitted to it.  The scratch buffer tmp is a sequence *)
(* of elements as above (<<>>: tmp is null); events is the trace of one    *)
(* call.  A call that throws leaves the BufferTransferer to its caller,    *)
(* who can call it again.                                                  *)
(***************************************************************************)
\* The element counts passed to transfer.
Counts == 0..MaxCount

\* UsesDirectPath taking the indirect path for every buffer.
UsesDirectPathNever(v) == FALSE

\* if(buf.is_host_visible)
UsesDirectPath(v) == v

\* vkQueueWaitIdle returning while the queue still works.
QueueIdleAtOnce(n) == TRUE

\* vkQueueWaitIdle(q) returns: nothing submitted to q is left to execute.
QueueIdle(n) == n = 0

\* The call leaves by an exception: the stack is unwound.
Throws ==
    /\ xPc' = "ready"
    /\ outcome' = "thrown"
    /\ events' = Append(events, "throw")

CallInit ==
    /\ SysInit
    /\ HeapIdle
    /\ BufIdle
    /\ XferIdle
    /\ SplitIdle
    /\ SetupIdle
    /\ ProcIdle
    /\ CtorIdle
    /\ TailIdle
    /\ xPc = "ready"
    /\ x_visible = FALSE
    /\ x_count = 0
    /\ x_direction = {}
    /\ q_pending = 0
    /\ events = <<>>
    /\ outcome = "none"
    /\ xfer_calls = 0
    /\ regrows = 0
    /\ cb_allocs = 0

\* What no statement of transfer changes.
callFrame == <<dev_mem, visible, written, presented, sysVars, heapVars, bufVars,
               splitVars, setupVars, procVars, ctorVars, tailVars>>

\* transfer(buf, count, direction, func) is called: if(buf.is_host_visible)
TransferCall(v, cnt, dir) ==
    /\ xPc = "ready"
    /\ xfer_calls < MaxXferCalls
    /\ x_visible' = v
    /\ x_count' = cnt
    /\ x_direction' = dir
    /\ xfer_calls' = xfer_calls + 1
    /\ events' = <<>>
    /\ outcome' = "none"
    /\ xPc' = IF UsesDirectPath(v) THEN "direct" ELSE "grow"
    /\ UNCHANGED <<tmp, tmp_size, cb, q_pending, regrows, cb_allocs, callFrame>>

\* MemMapper map{d, buf.mem.get()}; func(map.get<T>()); and the unmapping.
MapOwnMemory ==
    /\ xPc = "direct"
    /\ events' = events \o <<"map_buffer", "fn">>
    /\ outcome' = "returned"
    /\ xPc' = "ready"
    /\ UNCHANGED <<x_visible, x_count, x_direction, xfer_calls, tmp, tmp_size, cb,
                   q_pending, regrows, cb_allocs, callFrame>>

\* size = count * sizeof(T); if(tmp_size < size) { tmp = make_unique<Buffer>
\* (...); tmp_size = size; }  The Buffer constructor succeeds (made) or throws.
GrowTmp(made) ==
    /\ xPc = "grow"
    /\ LET size == TransferSize(x_count) IN
       IF TmpTooSmall(tmp_size, size)
       THEN IF made
            THEN /\ tmp' = Fresh(size \div SizeofT)
                 /\ tmp_size' = size
                 /\ regrows' = regrows + 1
                 /\ events' = Append(events, "new_tmp")
                 /\ xPc' = "assert"
                 /\ UNCHANGED outcome
            ELSE /\ Throws
                 /\ UNCHANGED <<tmp, tmp_size, regrows>>
       ELSE /\ made
            /\ xPc' = "assert"
            /\ UNCHANGED <<tmp, tmp_size, regrows, events, outcome>>
    /\ UNCHANGED <<x_visible, x_count, x_direction, xfer_calls, cb, q_pending,
                   cb_allocs, callFrame>>

\* assert(tmp); with tmp null the assertion fails or, compiled out, the
\* statements that follow dereference a null pointer.
AssertTmp ==
    /\ xPc = "assert"
    /\ xPc' = IF tmp = <<>> THEN "undefined" ELSE "cmdbuf"
    /\ UNCHANGED <<x_visible, x_count, x_direction, xfer_calls, tmp, tmp_size, cb,
                   q_pending, events, outcome, regrows, cb_allocs, callFrame>>

\* if(!cb) { cb = UVkCommandBuffers{...}; } which succeeds or throws; then
\* MemMapper map{d, tmp->mem.get()}; if(direction & HOST_WILL_READ_BIT)
AllocCommandBuffer(made) ==
    /\ xPc = "cmdbuf"
    /\ IF cb
       THEN /\ made
            /\ xPc' = IF "HOST_WILL_READ" \in x_direction THEN "read" ELSE "func"
            /\ UNCHANGED <<cb, cb_allocs, events, outcome>>
       ELSE IF made
            THEN /\ cb' = TRUE
                 /\ cb_allocs' = cb_allocs + 1
                 /\ events' = Append(events, "new_cb")
                 /\ xPc' = IF "HOST_WILL_READ" \in x_direction THEN "read" ELSE "func"
                 /\ UNCHANGED outcome
            ELSE /\ Throws
                 /\ UNCHANGED <<cb, cb_allocs>>
    /\ UNCHANGED <<x_visible, x_count, x_direction, xfer_calls, tmp, tmp_size,
                   q_pending, regrows, callFrame>>

\* The read half up to vkQueueSubmit: the copy from buf to tmp is recorded
\* and submitted, or a chk_vk throws.
SubmitToScratch(accepted) ==
    /\ xPc = "read"
    /\ IF accepted
       THEN /\ q_pending' = q_pending + 1
            /\ events' = Append(events, "submit_to_scratch")
            /\ xPc' = "read_wait"
            /\ UNCHANGED outcome
       ELSE /\ Throws
            /\ UNCHANGED q_pending
    /\ UNCHANGED <<x_visible, x_count, x_direction, xfer_calls, tmp, tmp_size, cb,
                   regrows, cb_allocs, callFrame>>

\* chk_vk(vkQueueWaitIdle(q)); chk_vk(vkInvalidateMappedMemoryRanges(...));
WaitScratchCopy ==
    /\ xPc = "read_wait"
    /\ QueueIdle(q_pending)
    /\ events' = Append(events, "idle")
    /\ xPc' = "func"
    /\ UNCHANGED <<x_visible, x_count, x_direction, xfer_calls, tmp, tmp_size, cb,
                   q_pending, outcome, regrows, cb_allocs, callFrame>>

\* func(map.get<T>()); if(direction & HOST_WILL_WRITE_BIT); without the
\* write half the call returns.
CallFunc ==
    /\ xPc = "func"
    /\ events' = Append(events, "fn")
    /\ IF "HOST_WILL_WRITE" \in x_direction
       THEN xPc' = "write" /\ UNCHANGED outcome
       ELSE xPc' = "ready" /\ outcome' = "returned"
    /\ UNCHANGED <<x_visible, x_count, x_direction, xfer_calls, tmp, tmp_size, cb,
                   q_pending, regrows, cb_allocs, callFrame>>

\* The write half up to vkQueueSubmit: the range is flushed, the copy from
\* tmp to buf is recorded and submitted, or a chk_vk throws.
SubmitToDevice(accepted) ==
    /\ xPc = "write"
    /\ IF accepted
       THEN /\ q_pending' = q_pending + 1
            /\ events' = Append(events, "submit_to_device")
            /\ xPc' = "write_wait"
            /\ UNCHANGED outcome
       ELSE /\ Throws
            /\ UNCHANGED q_pending
    /\ UNCHANGED <<x_visible, x_count, x_direction, xfer_calls, tmp, tmp_size, cb,
                   regrows, cb_allocs, callFrame>>

\* chk_vk(vkQueueWaitIdle(q)); and indirect_transfer returns.
WaitDeviceCopy ==
    /\ xPc = "write_wait"
    /\ QueueIdle(q_pending)
    /\ events' = Append(events, "idle")
    /\ outcome' = "returned"
    /\ xPc' = "ready"
    /\ UNCHANGED <<x_visible, x_count, x_direction, xfer_calls, tmp, tmp_size, cb,
                   q_pending, regrows, cb_allocs, callFrame>>

\* The queue executes a submitted command buffer.
QueueExecutes ==
    /\ q_pending > 0
    /\ q_pending' = q_pending - 1
    /\ events' = Append(events, "executed")
    /\ UNCHANGED <<xPc, x_visible, x_count, x_direction, xfer_calls, tmp, tmp_size,
                   cb, outcome, regrows, cb_allocs, callFrame>>

CallNext ==
    \/ \E v \in BOOLEAN, cnt \in Counts, dir \in Directions : TransferCall(v, cnt, dir)
    \/ MapOwnMemory
    \/ \E made \in BOOLEAN : GrowTmp(made)
    \/ AssertTmp
    \/ \E made \in BOOLEAN : AllocCommandBuffer(made)
    \/ \E accepted \in BOOLEAN : SubmitToScratch(accepted)
    \/ WaitScratchCopy
    \/ CallFunc
    \/ \E accepted \in BOOLEAN : SubmitToDevice(accepted)
    \/ WaitDeviceCopy
    \/ QueueExecutes

CallSpec == CallInit /\ [][CallNext]_vars

(***************************************************************************)
(* Properties of the slot pool.                                            *)
(***************************************************************************)
\* The step resets the fence of slot i, rewrites its uniform data or submits
\* its command list.
SlotTouched(p, i) ==
    \/ fence_set[p][i] /\ ~fence_set'[p][i]
    \/ uniform'[p][i] # uniform[p][i]
    \/ pending'[p][i] > pending[p][i]

\* The frame last submitted on slot i has completed: its fence is signaled
\* and no command list of the slot is left to execute.
SlotIdle(p, i) == fence_set[p][i] /\ pending[p][i] = 0

\* process calls of processor p that have sent their frame to a slot.
Dispatched(p) ==
    count[p] - (IF jobPc[p] \in {"fence_wait", "terminate", "undefined"} THEN 1 ELSE 0)

\* Some frame of processor p has been executed and has signaled its fence.
SomeFrameCompleted(p) == \E i \in Slots(p) : result_buf[p][i][1] > 0

\* C1: process never resets the fence of, rewrites the uniform data of, or
\* submits the command list of a slot whose previous frame has not completed;
\* and a pool of N slots dispatches its (N+1)-th call only after one of its
\* frames has completed (with N = 2: the 3rd call).
C1_NoReuseInFlight ==
    /\ [][\A p \in Jobs : \A i \in Slots(p) :
            SlotTouched(p, i) => SlotIdle(p, i)]_vars
    /\ [](\A p \in Jobs : Dispatched(p) > PoolSize(p) => SomeFrameCompleted(p))

\* C1 witness: the first processor's call number PoolSize + 1 found every
\* slot in flight, waited, and has been sent to a slot that had completed.
C1_Witness ==
    /\ count[1] = PoolSize(1) + 1
    /\ jobPc[1] = "sem_wait"
    /\ \E i \in Slots(1) : uniform[1][i] = val[1] /\ pending[1][i] = 1
    /\ SomeFrameCompleted(1)

\* C2: accumulate_result reads the result buffers of a processor only when
\* no frame is in flight on any of its slots (the device is idle).
C2_AccumulateWhenIdle ==
    [][collected' # collected =>
         \A i \in Slots(collected + 1) : pending[collected + 1][i] = 0]_vars

\* Slots of processor p whose fence is unsignaled.
Unsignaled(p) == {i \in Slots(p) : ~fence_set[p][i]}

\* C3: in a pool of N slots at most N fences are unsignaled, every slot has
\* at most one frame in flight, and a slot with a frame in flight has its
\* fence unsignaled.
C3_SlotPoolBound ==
    \A p \in Jobs :
        /\ Cardinality(Unsignaled(p)) <= PoolSize(p)
        /\ \A i \in Slots(p) :
              /\ pending[p][i] <= 1
              /\ pending[p][i] = 1 => ~fence_set[p][i]

\* C3 witness: every slot of the first processor has a frame in flight while
\* a further process call waits.
C3_Witness ==
    /\ \A i \in Slots(1) : pending[1][i] = 1
    /\ jobPc[1] = "fence_wait"

\* process of consumer c waits on the fences although a frame of its pool is
\* still to complete or has completed.
WaitsWithFrame(c) ==
    /\ jobPc[c] = "fence_wait"
    /\ \E i \in Slots(c) : pending[c][i] > 0 \/ fence_set[c][i]

\* process of consumer c has returned after sending its sample to a slot.
FrameSent(c) ==
    /\ jobPc[c] = "sem_wait"
    /\ \E i \in Slots(c) : uniform[c][i] = val[c] /\ ~fence_set[c][i]

\* C4: a process call that finds every slot in flight does not wait for ever
\* when one of the submitted frames completes, and when its wait ends it has
\* acquired a slot, dispatched the new frame to it and returned.
C4_ProcessUnblocks ==
    /\ \A c \in Jobs : []<>(~WaitsWithFrame(c))
    /\ [][\A c \in Jobs :
            jobPc[c] = "fence_wait" /\ jobPc'[c] # "fence_wait" => FrameSent(c)']_vars

\* C4 witness: the second processor (one slot) has returned from its second
\* call, which had to wait for the first frame.
C4_Witness ==
    /\ count[2] = 2
    /\ FrameSent(2)
    /\ uniform[2][0] = val[2]
    /\ result_buf[2][0][1] > 0

\* The sum of count over the processors 1..n.
RECURSIVE CountUpTo(_)
CountUpTo(n) == IF n = 0 THEN 0 ELSE CountUpTo(n - 1) + count[n]

\* The consumer threads have all been joined.
AllJoined == mainPc \in {"collect", "done"}

\* C5: every sample is dequeued by exactly one consumer and passed to
\* exactly one process call; after the joins every sample has been, and the
\* process counts add up to the number of samples produced.
C5_EachSampleOnce ==
    /\ \A s \in Samples : dequeues[s] <= 1 /\ processCalls[s] = dequeues[s]
    /\ CountUpTo(NumJobs) = Cardinality({s \in Samples : dequeues[s] > 0})
    /\ AllJoined =>
          /\ \A s \in Samples : dequeues[s] = 1
          /\ queue = <<>>
          /\ CountUpTo(NumJobs) = produced
          /\ produced = NumSamples

\* C5 witness: all threads are joined and the samples were shared between
\* two processors.
C5_Witness ==
    /\ AllJoined
    /\ count[1] > 0
    /\ count[2] > 0
    /\ CountUpTo(NumJobs) = NumSamples

(***************************************************************************)
(* Properties of the orchestrator.                                         *)
(***************************************************************************)
\* Every consumer thread has left its loop.
AllExited == \A c \in Jobs : jobPc[c] = "exited"

\* Every process call of every consumer returns.
ProcessReturns == \A c \in Jobs : []<>(jobPc[c] # "fence_wait")

\* C6: once the sequence is exhausted the producer posts exactly one signal
\* per consumer thread without a queue entry; each consumer takes exactly one
\* of them (its only empty dequeue) and leaves its loop; if every process
\* call returns, all consumers leave and the joins return.
C6_PoisonPillShutdown ==
    /\ [](mainPc \in {"join", "collect", "done"} => notified = NumJobs)
    /\ [](\A c \in Jobs :
            emptyDequeues[c] = (IF jobPc[c] = "exited" THEN 1 ELSE 0))
    /\ [](AllExited => sem = 0 /\ notified = NumJobs)
    /\ ProcessReturns => <>(AllExited /\ AllJoined)

\* C6 witness: both consumers processed samples, took their shutdown signal
\* and were joined; no signal is left over.
C6_Witness ==
    /\ AllExited
    /\ AllJoined
    /\ sem = 0
    /\ \A c \in Jobs : emptyDequeues[c] = 1 /\ count[c] > 0

\* The producer has left its loop and every sample has been dequeued.
ProductionOver ==
    /\ mainPc \notin {"produce", "signal"}
    /\ produced = NumSamples
    /\ \A s \in Samples : dequeues[s] = 1
    /\ queue = <<>>

\* C7: a dequeue after a successful wait finds the queue empty only when the
\* producer has finished and every sample has been dequeued; no consumer has
\* exited while the producer produces or a sample is still in the queue.
C7_EmptyMeansShutdown ==
    \A c \in Jobs :
        /\ jobPc[c] = "dequeue" /\ queue = <<>> => ProductionOver
        /\ jobPc[c] = "exited" => ProductionOver

\* C7 witness: a consumer that has processed samples met the empty queue and
\* exited while another consumer still holds a signal it has not used.
C7_Witness ==
    \E c, d \in Jobs :
        /\ jobPc[c] = "exited"
        /\ count[c] > 0
        /\ jobPc[d] = "dequeue"
        /\ queue = <<>>

\* Every sample counted once: the sum of SunVec over the samples.
AllSamples == 2 ^ NumSamples - 1

\* C8: the final per-point result and the combined totals are the same for
\* every dispatch order and every assignment of samples to slots and
\* devices: with every submission accepted, they are the sums over all the
\* samples.
C8_OrderIndependentResult ==
    mainPc = "done" /\ refusals = 0 =>
        /\ total_count = NumSamples
        /\ dir_total = AllSamples
        /\ \A k \in Points : result[k] = k * AllSamples

\* The sum of result_buf[p][i][k] over the slots i of the set S.
RECURSIVE BufferTotal(_, _, _)
BufferTotal(p, S, k) ==
    IF S = {} THEN 0
    ELSE LET i == CHOOSE j \in S : TRUE IN
         result_buf[p][i][k] + BufferTotal(p, S \ {i}, k)

\* C9: accumulate_result adds to the accumulator: every entry below
\* num_points grows by the sum of the slots' results, the entries from
\* num_points on and the slots' result buffers are unchanged.
C9_AccumulateAdds ==
    [][collected' = collected + 1 =>
         LET p == collected + 1 IN
         /\ Len(result') = Len(result)
         /\ \A k \in 1..Len(result) :
               result'[k] = IF k <= NumPoints
                            THEN result[k] + BufferTotal(p, Slots(p), k)
                            ELSE result[k]
         /\ result_buf' = result_buf]_vars

\* C9 witness: both processors have been accumulated, each had results in
\* more than nothing, and the accumulator holds all the samples.
C9_Witness ==
    /\ collected = NumJobs
    /\ \A p \in Jobs : BufferTotal(p, Slots(p), 1) > 0
    /\ \A k \in Points : result[k] = k * AllSamples
    /\ \E i \in Slots(1) : result_buf[1][i][1] > 0 /\ result_buf[1][i][1] < result[1]

(***************************************************************************)
(* Properties of find_memory_heap.                                         *)
(***************************************************************************)
\* The types allowed by the mask whose flags contain required.
SuitableTypes ==
    {i \in 0..(Len(mem_props) - 1) :
        i \in allowed /\ required \subseteq mem_props[i + 1]}

\* C10: when some type is allowed and has the required flags,
\* find_memory_heap returns an index below memoryTypeCount whose bit is set
\* in the allowed mask and whose flags contain every required flag.
C10_ReturnsSuitableType ==
    heapPc \in {"returned", "thrown"} /\ SuitableTypes # {} =>
        /\ heapPc = "returned"
        /\ mtype < Len(mem_props)
        /\ mtype \in allowed
        /\ required \subseteq mem_props[mtype + 1]

\* C10 witness: a call returned a type after skipping a type the mask
\* forbids and an allowed type lacking one of two required flags.
C10_Witness ==
    /\ heapPc = "returned"
    /\ required = MemFlags
    /\ \E i, j \in 0..(Len(mem_props) - 1) :
          /\ i < mtype /\ i \notin allowed /\ required \subseteq mem_props[i + 1]
          /\ j < mtype /\ j \in allowed /\ mem_props[j + 1] # {}
          /\ ~(required \subseteq mem_props[j + 1])

\* The suitable types whose flags also contain prefered.
PreferredTypes == {i \in SuitableTypes : prefered \subseteq mem_props[i + 1]}

\* C11: when some allowed type has the required and the prefered flags,
\* find_memory_heap returns a type whose flags contain every prefered flag.
C11_PreferredHonoured ==
    heapPc \in {"returned", "thrown"} /\ PreferredTypes # {} =>
        /\ heapPc = "returned"
        /\ mtype < Len(mem_props)
        /\ prefered \subseteq mem_props[mtype + 1]

\* C11 witness: a call returned a type with the prefered flag although a
\* candidate without it comes before and another one comes after.
C11_Witness ==
    /\ heapPc = "returned"
    /\ prefered # {}
    /\ prefered \subseteq mem_props[mtype + 1]
    /\ \E i, j \in SuitableTypes :
          /\ i < mtype /\ ~(prefered \subseteq mem_props[i + 1])
          /\ j > mtype /\ ~(prefered \subseteq mem_props[j + 1])

\* C12: find_memory_heap returns the lowest allowed type having the required
\* and the prefered flags when there is one, and otherwise the highest
\* allowed type having the required flags.
C12_TieBreak ==
    heapPc = "returned" =>
        /\ PreferredTypes # {} =>
              mtype \in PreferredTypes /\ \A i \in PreferredTypes : mtype <= i
        /\ PreferredTypes = {} =>
              mtype \in SuitableTypes /\ \A i \in SuitableTypes : i <= mtype

\* C12 witness: for the table required-only, required+prefered,
\* required-only, all three allowed, the call returned type 1.
C12_Witness ==
    /\ heapPc = "returned"
    /\ required = {"HOST_VISIBLE"}
    /\ prefered = {"DEVICE_LOCAL"}
    /\ mem_props = <<{"HOST_VISIBLE"}, {"HOST_VISIBLE", "DEVICE_LOCAL"}, {"HOST_VISIBLE"}>>
    /\ allowed = {0, 1, 2}
    /\ mtype = 1

\* A second C12 case: no type has the prefered flag and the last of
\* several candidates was returned.
C12_WitnessHighest ==
    /\ heapPc = "returned"
    /\ PreferredTypes = {}
    /\ \E i \in SuitableTypes : i < mtype

(***************************************************************************)
(* calculate_yearly_incidence and the vector it returns: the producer,     *)
(* one consumer thread per processor, and direct_incidence.push_back in    *)
(* the consumers' loop.  push_back on reserved storage reads the end       *)
(* position, constructs the element there and stores the new end; the    *)
(* vector has no lock, so the steps of two threads interleave.             *)
(***************************************************************************)
\* direct_incidence after reserve(): storage for every sample, size 0.
Reserved == [i \in Samples |-> 0]

\* try_dequeue_from_producer on the queue q: whether it takes an element.
Dequeues(q) == q # <<>>

YiInit ==
    /\ EarlyIdle
    /\ DtorIdle
    /\ OldIdle
    /\ MgrIdle
    /\ yiMain = "enqueue"
    /\ yi_next = 1
    /\ yi_queue = <<>>
    /\ yi_sem = 0
    /\ yiPc = [c \in Jobs |-> "wait"]
    /\ yi_val = [c \in Jobs |-> 0]
    /\ yi_end = [c \in Jobs |-> 0]
    /\ di_data = Reserved
    /\ di_size = 0
    /\ yi_result = <<>>

yiJobVars == <<yiPc, yi_val, yi_end, di_data, di_size>>
yiFrame == <<earlyVars, dtorVars, oldVars, mgrVars>>

\* while(ss.next(val)) queue.enqueue(t, val); the loop ends after the
\* last sample.
YiEnqueue ==
    /\ yiMain = "enqueue"
    /\ IF yi_next <= NumSamples
       THEN /\ yi_queue' = Append(yi_queue, yi_next)
            /\ yi_next' = yi_next + 1
            /\ yiMain' = "signal"
       ELSE /\ yiMain' = "notify"
            /\ UNCHANGED <<yi_queue, yi_next>>
    /\ UNCHANGED <<yi_sem, yiJobVars, yi_result, yiFrame>>

\* sem.signal();
YiSignal ==
    /\ yiMain = "signal"
    /\ yi_sem' = yi_sem + 1
    /\ yiMain' = "enqueue"
    /\ UNCHANGED <<yi_next, yi_queue, yiJobVars, yi_result, yiFrame>>

\* sem.signal(jobs.size());
YiNotify ==
    /\ yiMain = "notify"
    /\ yi_sem' = yi_sem + NumJobs
    /\ yiMain' = "join"
    /\ UNCHANGED <<yi_next, yi_queue, yiJobVars, yi_result, yiFrame>>

\* for(auto &t: jobs) t.join();
YiJoin ==
    /\ yiMain = "join"
    /\ \A c \in Jobs : yiPc[c] = "exited"
    /\ yiMain' = "shrink"
    /\ UNCHANGED <<yi_next, yi_queue, yi_sem, yiJobVars, yi_result, yiFrame>>

\* direct_incidence.shrink_to_fit(); return direct_incidence;
YiReturn ==
    /\ yiMain = "shrink"
    /\ yi_result' = SubSeq(di_data, 1, di_size)
    /\ yiMain' = "returned"
    /\ UNCHANGED <<yi_next, yi_queue, yi_sem, yiJobVars, yiFrame>>

\* sem.wait();
YiSemWait(c) ==
    /\ yiPc[c] = "wait"
    /\ yi_sem > 0
    /\ yi_sem' = yi_sem - 1
    /\ yiPc' = [yiPc EXCEPT ![c] = "dequeue"]
    /\ UNCHANGED <<yiMain, yi_next, yi_queue, yi_val, yi_end, di_data, di_size,
                   yi_result, yiFrame>>

\* if(!queue.try_dequeue_from_producer(t, val)) break;
YiTryDequeue(c) ==
    /\ yiPc[c] = "dequeue"
    /\ IF Dequeues(yi_queue)
       THEN /\ yi_val' = [yi_val EXCEPT ![c] = Head(yi_queue)]
            /\ yi_queue' = Tail(yi_queue)
            /\ yiPc' = [yiPc EXCEPT ![c] = "process"]
       ELSE /\ yiPc' = [yiPc EXCEPT ![c] = "exited"]
            /\ UNCHANGED <<yi_val, yi_queue>>
    /\ UNCHANGED <<yiMain, yi_next, yi_sem, yi_end, di_data, di_size, yi_result,
                   yiFrame>>

\* to_vec(...); p->process(suns_direction, val);
YiProcess(c) ==
    /\ yiPc[c] = "process"
    /\ yiPc' = [yiPc EXCEPT ![c] = "push_load"]
    /\ UNCHANGED <<yiMain, yi_next, yi_queue, yi_sem, yi_val, yi_end, di_data,
                   di_size, yi_result, yiFrame>>

\* direct_incidence.push_back(...): the end of the vector is read.
YiPushLoad(c) ==
    /\ yiPc[c] = "push_load"
    /\ yi_end' = [yi_end EXCEPT ![c] = di_size]
    /\ yiPc' = [yiPc EXCEPT ![c] = "push_store"]
    /\ UNCHANGED <<yiMain, yi_next, yi_queue, yi_sem, yi_val, di_data, di_size,
                   yi_result, yiFrame>>

\* direct_incidence.push_back(...): the element is constructed at the end
\* that was read and the end is advanced by one; back to sem.wait().
YiPushStore(c) ==
    /\ yiPc[c] = "push_store"
    /\ di_data' = [di_data EXCEPT ![yi_end[c] + 1] = yi_val[c]]
    /\ di_size' = yi_end[c] + 1
    /\ yiPc' = [yiPc EXCEPT ![c] = "wait"]
    /\ UNCHANGED <<yiMain, yi_next, yi_queue, yi_sem, yi_val, yi_end, yi_result,
                   yiFrame>>

YiJob(c) ==
    \/ YiSemWait(c)
    \/ YiTryDequeue(c)
    \/ YiProcess(c)
    \/ YiPushLoad(c)
    \/ YiPushStore(c)

YiNext ==
    \/ YiEnqueue
    \/ YiSignal
    \/ YiNotify
    \/ YiJoin
    \/ YiReturn
    \/ \E c \in Jobs : YiJob(c)

YiSpec == YiInit /\ [][YiNext]_vars

(***************************************************************************)
(* The end of a ShadowProcessor: the destructor's body, then the members   *)
(* in the reverse of their declaration order, each destroying the device   *)
(* objects it holds.  A move construction leaves the source with null      *)
(* handles and an empty task_pool.                                         *)
(***************************************************************************)
\* The members that hold device objects, in declaration order.
MemberOrder ==
    <<"d", "uniform_desc_set_layout", "vert_shader", "render_pass",
      "graphic_pipeline_layout", "graphic_pipeline", "compute_shader",
      "depth_sampler", "comp_sampler_dset_layout", "compute_pipeline_layout",
      "compute_pipeline", "desc_pool", "command_pool", "task_pool">>

Members == {MemberOrder[i] : i \in 1..Len(MemberOrder)}

\* The original object and the one move-constructed from it.
DtObjs == 1..2

\* The destructor with no test of d and no wait.
NeedsWaitNever(held) == FALSE

\* if(d): the device handle is not null.
NeedsWait(held) == held

DtorInit ==
    /\ EarlyIdle
    /\ YiIdle
    /\ OldIdle
    /\ MgrIdle
    /\ dtPc = [o \in DtObjs |-> IF o = 1 THEN "alive" ELSE "none"]
    /\ dt_members = [o \in DtObjs |-> [m \in Members |-> o = 1]]
    /\ dt_k = [o \in DtObjs |-> 0]
    /\ dt_pending = 0
    /\ dt_live = Members
    /\ dt_waits = 0

dtorFrame == <<earlyVars, yiVars, oldVars, mgrVars>>

\* ShadowProcessor(ShadowProcessor&& other) = default: every member is
\* move-constructed.
DtMove ==
    /\ dtPc[1] = "alive"
    /\ dtPc[2] = "none"
    /\ dtPc' = [dtPc EXCEPT ![2] = "alive"]
    /\ dt_members' = [dt_members EXCEPT ![2] = dt_members[1],
                                        ![1] = [m \in Members |-> FALSE]]
    /\ UNCHANGED <<dt_k, dt_pending, dt_live, dt_waits, dtorFrame>>

\* process() of an object that owns the device, before its destruction:
\* work is submitted.
DtSubmit(o) ==
    /\ dtPc[o] = "alive"
    /\ dt_members[o]["d"]
    /\ dt_pending < MaxCount
    /\ dt_pending' = dt_pending + 1
    /\ UNCHANGED <<dtPc, dt_members, dt_k, dt_live, dt_waits, dtorFrame>>

\* The device completes a piece of work.
DtGpuComplete ==
    /\ dt_pending > 0
    /\ dt_pending' = dt_pending - 1
    /\ UNCHANGED <<dtPc, dt_members, dt_k, dt_live, dt_waits, dtorFrame>>

\* The object's lifetime ends: ~ShadowProcessor is called.
DtBegin(o) ==
    /\ dtPc[o] = "alive"
    /\ dtPc' = [dtPc EXCEPT ![o] = "body"]
    /\ UNCHANGED <<dt_members, dt_k, dt_pending, dt_live, dt_waits, dtorFrame>>

\* if(d) vkDeviceWaitIdle(d.get()); which returns when the device is idle.
DtBody(o) ==
    /\ dtPc[o] = "body"
    /\ IF NeedsWait(dt_members[o]["d"])
       THEN /\ dt_pending = 0
            /\ dt_waits' = dt_waits + 1
       ELSE dt_waits' = dt_waits
    /\ dtPc' = [dtPc EXCEPT ![o] = "members"]
    /\ dt_k' = [dt_k EXCEPT ![o] = Len(MemberOrder)]
    /\ UNCHANGED <<dt_members, dt_pending, dt_live, dtorFrame>>

\* The next member's destructor, last declared first: a non-null handle
\* (a non-empty vector) is destroyed, a null one is left alone.
DtDestroyMember(o) ==
    /\ dtPc[o] = "members"
    /\ LET m == MemberOrder[dt_k[o]] IN
       /\ dt_live' = IF dt_members[o][m] THEN dt_live \ {m} ELSE dt_live
       /\ dt_members' = [dt_members EXCEPT ![o][m] = FALSE]
    /\ dt_k' = [dt_k EXCEPT ![o] = dt_k[o] - 1]
    /\ dtPc' = [dtPc EXCEPT ![o] = IF dt_k[o] = 1 THEN "destroyed" ELSE "members"]
    /\ UNCHANGED <<dt_pending, dt_waits, dtorFrame>>

DtorNext ==
    \/ DtMove
    \/ DtGpuComplete
    \/ \E o \in DtObjs : DtSubmit(o)
    \/ \E o \in DtObjs : DtBegin(o)
    \/ \E o \in DtObjs : DtBody(o)
    \/ \E o \in DtObjs : DtDestroyMember(o)

DtorSpec == DtorInit /\ [][DtorNext]_vars

(***************************************************************************)
(* Buffer::Buffer of src/src/shadow_processor.cpp, from the call of        *)
(* vkGetBufferMemoryRequirements on: the selection loop written in the     *)
(* constructor, the test after it, and the allocation.                     *)
(***************************************************************************)
OldInit ==
    /\ EarlyIdle
    /\ YiIdle
    /\ DtorIdle
    /\ MgrIdle
    /\ obPc = "loop"
    /\ ob_types \in BufTables
    /\ ob_bits \in TypeBits(ob_types)
    /\ ob_i = 0
    /\ ob_mtype = Unset
    /\ ob_alloc = Unset

oldFrame == <<earlyVars, yiVars, dtorVars, mgrVars>>

\* One pass of for(; i < mem_props.memoryTypeCount; ++i): continue when
\* the type is not allowed or not host-visible; otherwise mtype = i, and
\* break when the type is device-local.
OldIterate ==
    /\ obPc = "loop"
    /\ ob_i < Len(ob_types)
    /\ IF ~IsAllowed(ob_bits, ob_i) \/ "HOST_VISIBLE" \notin ob_types[ob_i + 1]
       THEN /\ ob_i' = ob_i + 1
            /\ UNCHANGED <<obPc, ob_mtype>>
       ELSE /\ ob_mtype' = ob_i
            /\ IF "DEVICE_LOCAL" \in ob_types[ob_i + 1]
               THEN obPc' = "test" /\ ob_i' = ob_i
               ELSE obPc' = obPc /\ ob_i' = ob_i + 1
    /\ UNCHANGED <<ob_types, ob_bits, ob_alloc, oldFrame>>

\* The loop condition i < mem_props.memoryTypeCount is false.
OldLoopEnd ==
    /\ obPc = "loop"
    /\ ob_i >= Len(ob_types)
    /\ obPc' = "test"
    /\ UNCHANGED <<ob_types, ob_bits, ob_i, ob_mtype, ob_alloc, oldFrame>>

\* if(i == mem_props.memoryTypeCount) throw std::runtime_error(...);
OldTest ==
    /\ obPc = "test"
    /\ obPc' = IF ob_i = Len(ob_types) THEN "thrown" ELSE "allocate"
    /\ UNCHANGED <<ob_types, ob_bits, ob_i, ob_mtype, ob_alloc, oldFrame>>

\* mem = create_vk_with_destroy_param<vkAllocateMemory, vkFreeMemory>(d,
\* VkMemoryAllocateInfo{..., mem_reqs.size, mtype}), which reads mtype.
OldAllocate(allocOk) ==
    /\ obPc = "allocate"
    /\ ob_alloc' = ob_mtype
    /\ obPc' = IF allocOk THEN "allocated" ELSE "alloc_failed"
    /\ UNCHANGED <<ob_types, ob_bits, ob_i, ob_mtype, oldFrame>>

OldNext ==
    \/ OldIterate
    \/ OldLoopEnd
    \/ OldTest
    \/ \E allocOk \in BOOLEAN : OldAllocate(allocOk)

OldSpec == OldInit /\ [][OldNext]_vars

(***************************************************************************)
(* Manager and the wrappers derived from it: objects that are constructed  *)
(* with a new handle or default-constructed, move-constructed from and     *)
(* move-assigned to one another, and destroyed.                            *)
(***************************************************************************)
Wrappers == 1..MaxWrappers

Handles == 1..MaxHandles

MgrInit ==
    /\ EarlyIdle
    /\ YiIdle
    /\ DtorIdle
    /\ OldIdle
    /\ mgPc = "running"
    /\ mg_ndebug \in BOOLEAN
    /\ mg_state = [w \in Wrappers |-> "none"]
    /\ mg_obj = [w \in Wrappers |-> 0]
    /\ mg_handles = 0
    /\ mg_destroys = [h \in Handles |-> 0]

mgrFrame == <<earlyVars, yiVars, dtorVars, oldVars>>

\* Manager(const CreateInfo& info, Args... args): chk_vk(CreateFn(...,
\* &obj)); when CreateFn fails chk_vk throws and no object is constructed.
MgCreate(w, createOk) ==
    /\ mgPc = "running"
    /\ mg_state[w] = "none"
    /\ mg_handles < MaxHandles
    /\ IF createOk
       THEN /\ mg_handles' = mg_handles + 1
            /\ mg_obj' = [mg_obj EXCEPT ![w] = mg_handles + 1]
            /\ mg_state' = [mg_state EXCEPT ![w] = "alive"]
       ELSE UNCHANGED <<mg_handles, mg_obj, mg_state>>
    /\ UNCHANGED <<mgPc, mg_ndebug, mg_destroys, mgrFrame>>

\* Manager() = default: obj = nullptr.
MgDefault(w) ==
    /\ mgPc = "running"
    /\ mg_state[w] = "none"
    /\ mg_obj' = [mg_obj EXCEPT ![w] = 0]
    /\ mg_state' = [mg_state EXCEPT ![w] = "alive"]
    /\ UNCHANGED <<mgPc, mg_ndebug, mg_handles, mg_destroys, mgrFrame>>

\* obj = other.obj; other.obj = nullptr; in this order, on the handles objs.
MoveObj(objs, w, other) ==
    [[objs EXCEPT ![w] = objs[other]] EXCEPT ![other] = 0]

\* Manager(Manager&& other): obj{nullptr} { *this = std::move(other); }
MgMoveConstruct(w, other) ==
    /\ mgPc = "running"
    /\ mg_state[w] = "none"
    /\ mg_state[other] = "alive"
    /\ mg_obj' = MoveObj([mg_obj EXCEPT ![w] = 0], w, other)
    /\ mg_state' = [mg_state EXCEPT ![w] = "alive"]
    /\ UNCHANGED <<mgPc, mg_ndebug, mg_handles, mg_destroys, mgrFrame>>

\* Manager& operator=(Manager&& other): assert(!obj); obj = other.obj;
\* other.obj = nullptr;  other may be *this.
MgMoveAssign(w, other) ==
    /\ mgPc = "running"
    /\ mg_state[w] = "alive"
    /\ mg_state[other] = "alive"
    /\ IF mg_obj[w] # 0 /\ ~mg_ndebug
       THEN /\ mgPc' = "aborted"
            /\ UNCHANGED mg_obj
       ELSE /\ mg_obj' = MoveObj(mg_obj, w, other)
            /\ UNCHANGED mgPc
    /\ UNCHANGED <<mg_ndebug, mg_state, mg_handles, mg_destroys, mgrFrame>>

\* ~ManagedVk, ~ManagedDPVk: if(this->obj) DestroyFn(..., this->obj, nullptr);
MgDestroy(w) ==
    /\ mgPc = "running"
    /\ mg_state[w] = "alive"
    /\ mg_state' = [mg_state EXCEPT ![w] = "destroyed"]
    /\ mg_destroys' = IF mg_obj[w] # 0
                      THEN [mg_destroys EXCEPT ![mg_obj[w]] = @ + 1]
                      ELSE mg_destroys
    /\ UNCHANGED <<mgPc, mg_ndebug, mg_obj, mg_handles, mgrFrame>>

MgrNext ==
    \/ \E w \in Wrappers, createOk \in BOOLEAN : MgCreate(w, createOk)
    \/ \E w \in Wrappers : MgDefault(w)
    \/ \E w \in Wrappers, other \in Wrappers : MgMoveConstruct(w, other)
    \/ \E w \in Wrappers, other \in Wrappers : MgMoveAssign(w, other)
    \/ \E w \in Wrappers : MgDestroy(w)

MgrSpec == MgrInit /\ [][MgrNext]_vars

(***************************************************************************)
(* Properties of the buffer constructors.                                  *)
(***************************************************************************)
\* C13: the find_memory_heap call of a Buffer constructor throws exactly
\* when no type is both allowed by memoryTypeBits and has the required
\* flags, a returned index is below memoryTypeCount, and the constructor
\* hands the selector's exception to its caller.
C13_NoSuitableMemory ==
    /\ heapPc \in {"returned", "thrown"} =>
          /\ heapPc = "thrown" <=> SuitableTypes = {}
          /\ heapPc = "returned" => mtype < Len(mem_props)
    /\ heapPc = "thrown" => buffer_thrown = "runtime_error"

\* C13 witness: the staging Buffer found no host-visible type among the
\* allowed ones, although the table has one, and the MaybeStagedBuffer
\* constructor ended with that exception.
C13_Witness ==
    /\ bufPc = "failed"
    /\ heapPc = "thrown"
    /\ buffer_thrown = "runtime_error"
    /\ retry_attempt = "ok"
    /\ required = {"HOST_VISIBLE"}
    /\ \E i \in 0..(Len(mem_props) - 1) :
          "HOST_VISIBLE" \in mem_props[i + 1] /\ i \notin allowed

\* The AccessibleBuffer ab is constructed (and not yet moved from).
AccessibleBuilt == bufPc \in {"staging", "move"}

\* C14: a constructed AccessibleBuffer is host-visible exactly when its
\* first Buffer, requiring device-local and host-visible memory, was
\* constructed, and then its memory type has both flags; it is not
\* host-visible exactly when the first failed and the device-local-only
\* second one was constructed.
C14_HostVisibleIffFirstAttempt ==
    AccessibleBuilt =>
        /\ ab.is_host_visible <=> first_attempt = "ok"
        /\ ~ab.is_host_visible <=> (first_attempt = "failed" /\ retry_attempt = "ok")
        /\ ab.base.mem # 0
        /\ ab.is_host_visible =>
              {"DEVICE_LOCAL", "HOST_VISIBLE"} \subseteq mem_props[ab.base.mtype + 1]
        /\ ~ab.is_host_visible => "DEVICE_LOCAL" \in mem_props[ab.base.mtype + 1]

\* C14 witness: ab is not host-visible because the first attempt found no
\* memory type, and its memory is device-local but not host-visible.
C14_Witness ==
    /\ AccessibleBuilt
    /\ ~ab.is_host_visible
    /\ first_attempt = "failed"
    /\ retry_attempt = "ok"
    /\ "HOST_VISIBLE" \notin mem_props[ab.base.mtype + 1]

\* C14, second case: the first attempt succeeded.
C14_WitnessVisible ==
    /\ AccessibleBuilt
    /\ ab.is_host_visible
    /\ first_attempt = "ok"
    /\ retry_attempt = "none"

\* C15: the usage flags the buffer of a constructed AccessibleBuffer was
\* created with are the requested ones when it is host-visible, and
\* otherwise the requested ones plus TRANSFER_DST if the host will write
\* and TRANSFER_SRC if the host will read.
C15_RetryUsageFlags ==
    AccessibleBuilt =>
        ab.base.usage =
            IF ab.is_host_visible THEN usage_arg
            ELSE usage_arg
                 \cup {f \in {"TRANSFER_DST"} : "HOST_WILL_WRITE" \in host_direction}
                 \cup {f \in {"TRANSFER_SRC"} : "HOST_WILL_READ" \in host_direction}

\* C15 witness: a write-only buffer requested without transfer bits ended
\* up not host-visible, with TRANSFER_DST and without TRANSFER_SRC.
C15_Witness ==
    /\ AccessibleBuilt
    /\ ~ab.is_host_visible
    /\ host_direction = {"HOST_WILL_WRITE"}
    /\ usage_arg = {"STORAGE_BUFFER"}
    /\ ab.base.usage = {"STORAGE_BUFFER", "TRANSFER_DST"}

\* C15, other cases: read+write adds both bits; host-visible adds none.
C15_WitnessBoth ==
    /\ AccessibleBuilt
    /\ ~ab.is_host_visible
    /\ host_direction = {"HOST_WILL_WRITE", "HOST_WILL_READ"}
    /\ usage_arg = {}
    /\ ab.base.usage = {"TRANSFER_SRC", "TRANSFER_DST"}

\* C16: a constructed MaybeStagedBuffer has a staging buffer exactly when
\* its AccessibleBuffer was not host-visible; get_visible_mem is the
\* staging buffer's memory when there is one and the buffer's own memory
\* otherwise, and is never VK_NULL_HANDLE.
C16_StagingIffNotVisible ==
    bufPc = "constructed" =>
        /\ staging_buf # NullBuffer <=> ~ab.is_host_visible
        /\ staging_buf # NullBuffer =>
              get_visible_mem = staging_buf.mem /\ get_visible_mem # this_buf.mem
        /\ staging_buf = NullBuffer => get_visible_mem = this_buf.mem
        /\ get_visible_mem # 0
        /\ this_buf.mem # 0

\* C16 witness: a constructed MaybeStagedBuffer with a staging buffer,
\* whose memory is what get_visible_mem returns.
C16_Witness ==
    /\ bufPc = "constructed"
    /\ ~ab.is_host_visible
    /\ staging_buf.mem # 0
    /\ get_visible_mem = staging_buf.mem

\* C16, second case: no staging buffer, the buffer's own memory.
C16_WitnessDirect ==
    /\ bufPc = "constructed"
    /\ ab.is_host_visible
    /\ staging_buf = NullBuffer
    /\ get_visible_mem = this_buf.mem

(***************************************************************************)
(* Properties of BufferTransferer.                                         *)
(***************************************************************************)
\* C17: when a read-only transfer of n elements of the non-host-visible
\* buffer "A" comes after a write-only transfer of n elements to it, its
\* callback is shown exactly the elements the write-only callback stored,
\* whatever other transfers used or regrew the scratch buffer in between.
C17_ReadBackWhatWasWritten ==
    presented.count # 0 /\ presented.count = written.count =>
        presented.values = written.values

\* C17 witness: "a","b" was written to "A", then other transfers reused the
\* scratch buffer, and the read-only callback was shown "a","b".
C17_Witness ==
    /\ ~visible["A"]
    /\ written.count = 2
    /\ written.values = <<"a", "b">>
    /\ written.reused
    /\ presented.count = 2
    /\ presented.values = <<"a", "b">>
    /\ tmp # <<>>

\* C17, second case: one element was written, the scratch buffer was
\* regrown for a larger transfer, and the element was read back.
C17_WitnessRegrown ==
    /\ written.count = 1
    /\ written.regrown
    /\ presented.count = 1
    /\ presented.values = written.values
    /\ Len(tmp) > 1

(***************************************************************************)
(* Properties of WorkGroupSplit.                                           *)
(***************************************************************************)
\* C18 as stated: num_groups >= 1, group_x_size <= L, and the product
\* num_groups * group_x_size, computed as a uint32_t like the two factors,
\* is at least work_size.
C18_SplitCoversWork32 ==
    splitPc = "done" =>
        /\ num_groups >= 1
        /\ group_x_size <= Limit(dlimits)
        /\ U32(num_groups * group_x_size) >= work_size

\* C18, amended: num_groups >= 1, 1 <= group_x_size <= L, both fit a
\* uint32_t, and the product num_groups * group_x_size taken as a natural
\* number, without wrapping, is at least work_size.
C18_SplitCoversWork ==
    splitPc = "done" =>
        /\ num_groups \in Word /\ group_x_size \in Word
        /\ num_groups >= 1
        /\ group_x_size >= 1
        /\ group_x_size <= Limit(dlimits)
        /\ num_groups * group_x_size >= work_size

\* C18 witness: a split rounded up in both divisions, whose product does
\* not fit a uint32_t.
C18_Witness ==
    /\ splitPc = "done"
    /\ work_size % Limit(dlimits) > 0
    /\ work_size % num_groups > 0
    /\ num_groups * group_x_size >= Word32

(***************************************************************************)
(* Properties of create_procs_from_devices.                                *)
(***************************************************************************)
\* The devices with a graphics queue family whose setup succeeds.
SuitableDevices ==
    {k \in 1..Len(pds) : create_if_has_graphics(pds[k]) = "processor"}

\* The devices that have a ShadowProcessor in the pool.
PoolDevices == {processors[i] : i \in 1..Len(processors)}

SetupOver == setupPc \in {"returned", "exit"}

\* C19: when create_procs_from_devices is over, the pool holds one
\* ShadowProcessor for every suitable device and nothing else, so its size
\* is the number of suitable devices.
C19_OneProcessorPerSuitableDevice ==
    SetupOver =>
        /\ PoolDevices = SuitableDevices
        /\ Len(processors) = Cardinality(SuitableDevices)

\* C20: when create_procs_from_devices is over, no device whose setup threw
\* is in the pool, a device whose setup threw did not keep any suitable
\* device out of the pool, and the program has exited exactly when the pool
\* is empty.
C20_FailedDeviceDropped ==
    SetupOver =>
        /\ \A k \in 1..Len(pds) :
              create_if_has_graphics(pds[k]) # "processor" => k \notin PoolDevices
        /\ \A j, k \in 1..Len(pds) :
              /\ create_if_has_graphics(pds[j]) # "processor"
              /\ create_if_has_graphics(pds[k]) = "processor"
              => k \in PoolDevices
        /\ setupPc = "exit" <=> processors = <<>>

(***************************************************************************)
(* Properties of the running totals and of the ownership of a processor.   *)
(***************************************************************************)
\* The samples whose direction is part of sum of processor p (the direction
\* of sample s is the s-th binary digit of the sum).
SamplesIn(p) == {s \in Samples : (sum[p] \div SunVec(s)) % 2 = 1}

\* The step is the start of a process call of processor p: its consumer
\* thread has dequeued a sample.
ProcessBegins(p) ==
    jobPc[p] = "dequeue" /\ jobPc'[p] \in {"sem_wait", "fence_wait"}

\* C21: the start of a process call adds 1 to count and the direction of
\* its sample to sum, also when every slot is in flight and no slot is
\* acquired yet; no other step changes the totals; so get_process_count()
\* is the number of process calls made, each with its own sample in sum.
C21_TotalsOncePerCall ==
    /\ [][\A p \in Jobs :
            IF ProcessBegins(p)
            THEN /\ count'[p] = count[p] + 1
                 /\ sum'[p] = sum[p] + SunVec(val'[p])
                 /\ processCalls'[val'[p]] = processCalls[val'[p]] + 1
            ELSE count'[p] = count[p] /\ sum'[p] = sum[p]]_vars
    /\ [](\A p \in Jobs :
            /\ count[p] = Cardinality(SamplesIn(p))
            /\ \A s \in SamplesIn(p) : processCalls[s] = 1)

\* C21 witness: the first processor's call number PoolSize + 1 is counted
\* and summed while it still waits for a slot.
C21_Witness ==
    /\ jobPc[1] = "fence_wait"
    /\ count[1] = PoolSize(1) + 1
    /\ val[1] \in SamplesIn(1)
    /\ available_slots[1] = <<>>

\* The step changes the totals, the FIFO or a slot of processor p from the
\* host side.
ProcessorUsed(p) ==
    \/ count'[p] # count[p]
    \/ sum'[p] # sum[p]
    \/ available_slots'[p] # available_slots[p]
    \/ \E i \in Slots(p) : SlotTouched(p, i)

\* The step reads the totals or the results of a processor from main.
MainReads ==
    \/ collected' # collected
    \/ dir_total' # dir_total
    \/ total_count' # total_count
    \/ result' # result

\* C22: every step that uses processor p from the host side is a step of
\* consumer thread p inside its own loop and of no other thread, and main
\* reads the totals and calls accumulate_result only when every consumer
\* thread has exited and has been joined.
C22_OneThreadPerProcessor ==
    /\ [][\A p \in Jobs : ProcessorUsed(p) =>
            /\ jobPc[p] \in {"dequeue", "fence_wait"}
            /\ jobPc'[p] # jobPc[p]
            /\ \A c \in Jobs \ {p} : jobPc'[c] = jobPc[c]
            /\ mainPc' = mainPc]_vars
    /\ [][MainReads =>
            /\ mainPc = "collect"
            /\ \A c \in Jobs : jobPc[c] = "exited"
            /\ UNCHANGED <<jobVars, totalVars, poolVars>>]_vars

\* C22 witness: main has read the totals of every processor after the
\* joins, and both consumer threads had used their processor.
C22_Witness ==
    /\ collected = NumJobs
    /\ total_count = NumSamples
    /\ \A p \in Jobs : count[p] > 0 /\ jobPc[p] = "exited"

\* C23: the FIFO of available slots holds indices below the number of
\* slots, holds none twice, and the fence of every slot it holds is signaled.
C23_FifoHoldsSignaledSlots ==
    \A p \in Jobs :
        LET fifo == available_slots[p] IN
        \A k \in 1..Len(fifo) :
            /\ fifo[k] \in 0..(PoolSize(p) - 1)
            /\ fence_set[p][fifo[k]]
            /\ \A j \in 1..Len(fifo) : j # k => fifo[j] # fifo[k]

\* C23 witness: the FIFO of the first processor was refilled by its call
\* number PoolSize + 1, which found several fences signaled, took the first
\* slot and left the others in the FIFO.
C23_Witness ==
    /\ count[1] = PoolSize(1) + 1
    /\ jobPc[1] = "sem_wait"
    /\ available_slots[1] # <<>>
    /\ ~fence_set[1][0]

InFlight(p) == {i \in Slots(p) : pending[p][i] > 0}

\* C25: a process call that waits on the fences while fewer than N frames
\* are in flight does not depend on the device completing a frame: its
\* vkWaitForFences can return VK_SUCCESS at once.
C25_NoBlockingBelowN ==
    \A p \in Followed :
        (procPc = "wait" /\ Cardinality(InFlight(p)) < PoolSize(p))
            => ENABLED WaitForFences(p, "VK_SUCCESS")

\* vkWaitForFences returns r to the loop of process in this step.
WaitReturns(r) ==
    /\ procPc = "wait"
    /\ ret' = r
    /\ timeouts' # timeouts \/ procPc' # "wait"

\* The step dispatches nothing and makes no slot available: the FIFO and
\* the uniform data are as before, no fence is reset and nothing is submitted.
NothingDispatched ==
    /\ UNCHANGED <<available_slots, uniform, submit_calls>>
    /\ \A p \in Followed : \A i \in Slots(p) :
          /\ fence_set[p][i] => fence_set'[p][i]
          /\ pending'[p][i] <= pending[p][i]

\* C27: a VK_TIMEOUT of the fence wait sends process back to the wait, with
\* no error raised and no slot made available; any other result but
\* VK_SUCCESS makes process throw, and the call that threw has dispatched
\* no slot and dispatches none afterwards.
C27_TimeoutRetriedErrorThrown ==
    /\ [][/\ WaitReturns("VK_TIMEOUT") => procPc' = "wait" /\ NothingDispatched
          /\ \A r \in VkWaitResults \ {"VK_SUCCESS", "VK_TIMEOUT"} :
                WaitReturns(r) => procPc' = "thrown" /\ NothingDispatched
          /\ procPc = "thrown" => procPc' = "thrown" /\ NothingDispatched]_vars
    /\ [](procPc = "thrown" => submit_calls = calls - 1)

\* C27 witness: the wait of a call timed out, was retried, returned
\* VK_SUCCESS after a frame had completed, and the call has dispatched.
C27_Witness ==
    /\ timeouts > 0
    /\ ret = "VK_SUCCESS"
    /\ procPc = "ready"
    /\ submit_calls = calls

\* C27 witness: the wait of a call timed out, was retried and then returned
\* an error; process threw.
C27_WitnessThrown ==
    /\ timeouts > 0
    /\ ret = "VK_ERROR_DEVICE_LOST"
    /\ procPc = "thrown"

\* C28: the step that submits is the last of the call and returns at
\* once; at that step the slot's uniform data, written and flushed, are the
\* direction of this call, the command list submitted is the slot's and the
\* fence given is the slot's; and every call that has returned has made
\* exactly one submission.
C28_WriteFlushThenSubmitOnce ==
    /\ [][submit_calls' # submit_calls =>
            /\ submit_calls' = submit_calls + 1
            /\ procPc = "submit" /\ procPc' = "ready"
            /\ params[cur_task_idx] = direction
            /\ \A p \in Followed : uniform[p][cur_task_idx] = direction
            /\ last_submit'.slot = cur_task_idx
            /\ last_submit'.fence = cur_task_idx
            /\ last_submit'.data = direction]_vars
    /\ [](procPc = "ready" => submit_calls = calls)

\* C28 witness: the second call has returned; its frame, with its own
\* direction, is in flight on its slot, whose fence is unsignaled, and the
\* slot of the first call holds another direction.
C28_Witness ==
    \E p \in Followed :
        /\ procPc = "ready"
        /\ calls = 2
        /\ last_submit.accepted
        /\ last_submit.data = direction
        /\ pending[p][last_submit.slot] = 1
        /\ ~fence_set[p][last_submit.slot]
        /\ \E i \in Slots(p) : uniform[p][i] \notin {0, direction}

\* C29: a queue submission that fails makes process throw, and when process
\* has returned no slot has its fence reset with no command list submitted.
C29_SubmitFailureSurfaced ==
    /\ (last_submit # <<>> /\ ~last_submit.accepted) => procPc = "thrown"
    /\ \A p \in Followed :
          procPc = "ready" =>
              \A i \in Slots(p) :
                  ~fence_set[p][i] => pending[p][i] > 0

(***************************************************************************)
(* Properties of the construction of a ShadowProcessor.                    *)
(***************************************************************************)
\* C26: when the constructor returns, the fence of every slot is signaled
\* and the FIFO holds 0, 1, ..., N-1 in this order; and from then on
\* fence_set is as long as task_pool and its i-th entry is the fence of the
\* i-th slot, whatever fences process resets and the device signals.
C26_ConstructedPool ==
    /\ [][ctorPc = "slots" /\ ctorPc' = "constructed" =>
            /\ \A i \in 1..Len(task_pool') : task_pool'[i].frame_fence \in signaled'
            /\ ctor_available_slots' = [k \in 1..Len(task_pool') |-> k - 1]]_vars
    /\ [](ctorPc \in {"constructed", "running"} =>
            /\ Len(ctor_fence_set) = Len(task_pool)
            /\ \A i \in 1..Len(task_pool) :
                  ctor_fence_set[i] = task_pool[i].frame_fence)

\* C26 witness: a processor with three slots on two queue families has been
\* constructed, and since then all its fences have been reset.
C26_Witness ==
    /\ ctorPc = "running"
    /\ Len(queues) = 2
    /\ Len(task_pool) = 3
    /\ ctor_available_slots = <<0, 1, 2>>
    /\ signaled = {}

\* The queues of all the families.
RECURSIVE TotalQueues(_, _)
TotalQueues(qs, k) == IF k = 0 THEN 0 ELSE TotalQueues(qs, k - 1) + qs[k]

\* C30: when the constructor returns, task_pool.size() is num_slots,
\* num_slots is SLOTS_PER_QUEUE times the number of queues of all families,
\* and the descriptor sets allocated, two per slot, are within the pool's
\* maxSets and within its count of each descriptor type.
C30_PoolSizing ==
    ctorPc = "constructed" =>
        /\ Len(task_pool) = num_slots
        /\ num_slots = SLOTS_PER_QUEUE * TotalQueues(queues, Len(queues))
        /\ desc_pool.sets = SetsPerSlot * Len(task_pool)
        /\ desc_pool.sets <= desc_pool.maxSets
        /\ \A t \in DescriptorTypes : desc_pool.used[t] <= desc_pool.sizes[t]

(***************************************************************************)
(* Properties of one transfer call, statement by statement.                *)
(***************************************************************************)
\* The positions of event e in the trace of the call.
At(e) == {k \in 1..Len(events) : events[k] = e}

\* C31: in indirect_transfer, a copy to the scratch buffer is submitted
\* only if the host will read and a copy to the device only if the host
\* will write; when the host will read, fn is invoked after the copy to the
\* scratch buffer was submitted, executed and waited for; the copy to the
\* device is submitted after fn; and when the host will write the call
\* returns after that copy was submitted, executed and waited for, with the
\* queue idle.
C31_CopiesAroundFn ==
    (~x_visible /\ xPc # "idle") =>
        /\ At("submit_to_scratch") # {} => "HOST_WILL_READ" \in x_direction
        /\ At("submit_to_device") # {} => "HOST_WILL_WRITE" \in x_direction
        /\ \A f \in At("fn") :
              "HOST_WILL_READ" \in x_direction =>
                  \E i \in At("submit_to_scratch"), e \in At("executed"),
                     j \in At("idle") : i < e /\ e < j /\ j < f
        /\ \A k \in At("submit_to_device") : \E f \in At("fn") : f < k
        /\ xPc = "func" => q_pending = 0
        /\ outcome = "returned" =>
              /\ q_pending = 0
              /\ "HOST_WILL_READ" \in x_direction => At("submit_to_scratch") # {}
              /\ "HOST_WILL_WRITE" \in x_direction =>
                    \E k \in At("submit_to_device"), e \in At("executed"),
                       j \in At("idle") : k < e /\ e < j

\* C31 witness: a call with both directions on a fresh BufferTransferer has
\* returned after the two copies, each executed before its wait ended.
C31_Witness ==
    /\ ~x_visible
    /\ outcome = "returned"
    /\ x_direction = {"HOST_WILL_WRITE", "HOST_WILL_READ"}
    /\ events = <<"new_tmp", "new_cb", "submit_to_scratch", "executed", "idle",
                  "fn", "submit_to_device", "executed", "idle">>

\* C32: a call that has returned has invoked fn exactly once; a call on a
\* host-visible buffer maps the buffer's own memory, submits nothing to the
\* queue, and leaves the scratch buffer, its size and the command buffer as
\* they were, allocated or not.
C32_FnOnceDirectTouchesNothing ==
    /\ [](outcome = "returned" => Cardinality(At("fn")) = 1)
    /\ [](x_visible => \A k \in 1..Len(events) : events[k] \in {"map_buffer", "fn"})
    /\ [][x_visible' =>
            UNCHANGED <<tmp, tmp_size, cb, q_pending, regrows, cb_allocs>>]_vars

\* C32 witness: a call on a host-visible buffer has returned on a
\* BufferTransferer whose scratch and command buffers an earlier call had
\* allocated.
C32_Witness ==
    /\ x_visible
    /\ outcome = "returned"
    /\ events = <<"map_buffer", "fn">>
    /\ tmp # <<>>
    /\ cb

C34_AssertTmpHolds ==
    /\ xPc # "undefined"
    /\ xPc \in {"cmdbuf", "read", "read_wait", "func", "write", "write_wait"}
          => tmp # <<>>

(***************************************************************************)
(* Failure of the buffer constructors, and the staging buffer.             *)
(***************************************************************************)
\* The handles created and not destroyed.
LiveHandles == (1..num_handles) \ destroyed

\* C35: the failure of AccessibleBuffer's first Buffer is caught and
\* followed by the device-local-only retry, never handed to the caller;
\* when the retry fails too its exception leaves the constructor, no
\* AccessibleBuffer exists, and after either failed attempt every handle
\* the attempt created has been destroyed.
C35_BothAttemptsFailPropagates ==
    /\ first_attempt = "failed" /\ retry_attempt = "none" =>
          /\ bufPc = "retry"
          /\ ab.base = NullBuffer
          /\ LiveHandles = {}
    /\ first_attempt = "failed" /\ retry_attempt = "failed" =>
          /\ bufPc = "failed"
          /\ buffer_thrown \in {"runtime_error", "VulkanCreationError"}
          /\ ab.base = NullBuffer
          /\ this_buf = NullBuffer
          /\ staging_buf = NullBuffer
          /\ LiveHandles = {}
    /\ bufPc = "failed" => retry_attempt # "none"

\* C35 witness: both attempts created a VkBuffer and then failed, the
\* constructor was left with the second failure, and both buffers are
\* destroyed.
C35_Witness ==
    /\ bufPc = "failed"
    /\ first_attempt = "failed"
    /\ retry_attempt = "failed"
    /\ buffer_thrown = "VulkanCreationError"
    /\ num_handles = 2
    /\ destroyed = {1, 2}

\* C40: the staging buffer of a MaybeStagedBuffer was created with the
\* byte size of the primary buffer, which is the size argument, from
\* memory found with HOST_VISIBLE required, and with TRANSFER_SRC exactly
\* when the host will write and TRANSFER_DST exactly when it will read;
\* a host-visible primary buffer has no staging buffer and no handle
\* beyond its own two.
C40_StagingBufferShape ==
    bufPc \in {"move", "constructed"} =>
        LET primary == IF bufPc = "move" THEN ab.base ELSE this_buf IN
        /\ staging_buf # NullBuffer =>
              /\ ~ab.is_host_visible
              /\ buf_size[staging_buf.buf] = buf_size[primary.buf]
              /\ buf_size[staging_buf.buf] = size_arg
              /\ required = {"HOST_VISIBLE"}
              /\ "HOST_VISIBLE" \in mem_props[staging_buf.mtype + 1]
              /\ "TRANSFER_SRC" \in staging_buf.usage
                    <=> "HOST_WILL_WRITE" \in host_direction
              /\ "TRANSFER_DST" \in staging_buf.usage
                    <=> "HOST_WILL_READ" \in host_direction
              /\ staging_buf.usage \subseteq {"TRANSFER_SRC", "TRANSFER_DST"}
        /\ ab.is_host_visible =>
              /\ staging_buf = NullBuffer
              /\ LiveHandles = HandlesOf(primary)

\* C40 witness: a write-only buffer of two bytes that is not host-visible
\* got a two-byte TRANSFER_SRC staging buffer in host-visible memory,
\* while the primary buffer has TRANSFER_DST.
C40_Witness ==
    /\ bufPc = "constructed"
    /\ ~ab.is_host_visible
    /\ host_direction = {"HOST_WILL_WRITE"}
    /\ size_arg = 2
    /\ staging_buf # NullBuffer
    /\ buf_size[staging_buf.buf] = 2
    /\ staging_buf.usage = {"TRANSFER_SRC"}
    /\ "TRANSFER_DST" \in this_buf.usage
    /\ "HOST_VISIBLE" \in mem_props[staging_buf.mtype + 1]

\* C40, second case: a host-visible primary buffer and no staging buffer.
C40_WitnessDirect ==
    /\ bufPc = "constructed"
    /\ ab.is_host_visible
    /\ staging_buf = NullBuffer
    /\ LiveHandles = {this_buf.buf, this_buf.mem}

(***************************************************************************)
(* Threads of calculate_yearly_incidence.                                  *)
(***************************************************************************)
\* A thread is modifying direct_incidence.
InPushBack(c) == yiPc[c] = "push_store"

\* C36: apart from the queue and the semaphore no object is modified by
\* two threads at once: no two consumer threads are inside
\* direct_incidence.push_back at the same time, and the vector returned
\* holds every sample once.
C36_OnlyQueueAndSemShared ==
    /\ \A c, d \in Jobs : c # d => ~(InPushBack(c) /\ InPushBack(d))
    /\ yiMain = "returned" =>
          /\ Len(yi_result) = NumSamples
          /\ {yi_result[i] : i \in 1..Len(yi_result)} = Samples

(***************************************************************************)
(* Destruction of a ShadowProcessor.                                       *)
(***************************************************************************)
\* C37: a device object of a ShadowProcessor is destroyed only after
\* vkDeviceWaitIdle has returned with the device idle; the device is
\* destroyed when no other device object is left; the destructor of an
\* object that holds the device waits once, with nothing pending when the
\* wait returns, and the destructor of a moved-from object does not wait.
C37_WaitIdleThenChildrenThenDevice ==
    [][/\ dt_live' # dt_live => (dt_pending = 0 /\ dt_waits >= 1)
       /\ ("d" \in dt_live /\ "d" \notin dt_live') => dt_live = {"d"}
       /\ \A o \in DOMAIN dtPc :
             (dtPc[o] = "body" /\ dtPc'[o] = "members") =>
                 IF dt_members[o]["d"]
                 THEN dt_waits' = dt_waits + 1 /\ dt_pending = 0
                 ELSE dt_waits' = dt_waits]_vars

\* C37 witness: the object was moved, work was submitted through the new
\* object, both objects are destroyed, every device object is gone and
\* vkDeviceWaitIdle was called once.
C37_Witness ==
    /\ dtPc = <<"destroyed", "destroyed">>
    /\ dt_live = {}
    /\ dt_waits = 1
    /\ dt_pending = 0

\* C37, second case: the moved-from object has run its destructor without
\* a wait while work is pending on the device of the live object.
C37_WitnessMovedFrom ==
    /\ dtPc = <<"destroyed", "alive">>
    /\ dt_pending > 0
    /\ dt_waits = 0
    /\ dt_live = Members

(***************************************************************************)
(* Memory selection of the src/src Buffer constructor.                     *)
(***************************************************************************)
\* The allowed host-visible memory types.
OldHostVisible ==
    {i \in 0..(Len(ob_types) - 1) :
        i \in ob_bits /\ "HOST_VISIBLE" \in ob_types[i + 1]}

\* The allowed host-visible memory types that are device-local too.
OldLocalVisible == {i \in OldHostVisible : "DEVICE_LOCAL" \in ob_types[i + 1]}

\* C39: once the selection is over, the constructor has thrown exactly
\* when no allowed type is host-visible; otherwise mtype is the first
\* allowed host-visible type that is device-local or, without one, the
\* last allowed host-visible type, and that index is what the allocation
\* uses, never an unassigned one.
C39_OldSelectsAnyHostVisible ==
    obPc \in {"thrown", "allocate", "allocated", "alloc_failed"} =>
        /\ obPc = "thrown" <=> OldHostVisible = {}
        /\ obPc # "thrown" =>
              ob_mtype =
                  IF OldLocalVisible # {}
                  THEN CHOOSE i \in OldLocalVisible :
                           \A j \in OldLocalVisible : i <= j
                  ELSE CHOOSE i \in OldHostVisible :
                           \A j \in OldHostVisible : j <= i
        /\ obPc \in {"allocated", "alloc_failed"} =>
              ob_alloc = ob_mtype /\ ob_alloc # Unset

(***************************************************************************)
(* Ownership of the handles held by the wrappers.                          *)
(***************************************************************************)
\* The live wrappers that hold the handle h.
Holders(h) == {w \in DOMAIN mg_state : mg_state[w] = "alive" /\ mg_obj[w] = h}

\* C38: a handle made by CreateFn is given to DestroyFn at most once; until
\* then exactly one live wrapper holds it, whatever moves were made, and
\* afterwards none does: so the destructor of a moved-from wrapper
\* destroys nothing, no assignment makes a live handle unreachable, and
\* when every wrapper is destroyed every handle has been destroyed once.
C38_HandleDestroyedExactlyOnce ==
    \A h \in 1..mg_handles :
        /\ mg_destroys[h] <= 1
        /\ Cardinality(Holders(h)) = IF mg_destroys[h] = 0 THEN 1 ELSE 0
====
